---- MODULE Spec2Model ----
(***************************************************************************)
(* microPROLOG logic core: terms, substitutions, unification with          *)
(* occurs-check, the clause database, clause renaming and the depth-first  *)
(* SLD resolution generator (src/terms.py, src/unification.py,             *)
(* src/database.py, src/inference.py, src/builtin_predicates.py).          *)
(*                                                                         *)
(* Substitution objects live in a heap (a sequence of binding maps); a     *)
(* reference is an index into it and 0 is Python's None.  The generator    *)
(* solve() is a stack of activation frames advanced one step at a time.    *)
(***************************************************************************)
EXTENDS Integers, Sequences, FiniteSets, TLC

VARIABLES
    heap,         \* the Substitution objects allocated so far: reference -> binding map
    cur,          \* unification runs: the substitution the caller holds
    call,         \* unification runs: the last call, its arguments and its result
    ncalls,       \* unification runs: calls made
    clauses,      \* Database.clauses
    index,        \* Database._index: functor -> clauses with that head functor
    dbcall,       \* database runs: the last call, the database before it, its result
    var_counter,  \* InferenceEngine._var_counter
    depth_limit,  \* InferenceEngine.depth_limit
    goals,        \* the goal list of the query in flight
    stack,        \* the activations of solve(), outermost first
    mode,         \* idle | created | running | yielded | exhausted | raised
    out,          \* the solutions the consumer has received for this query
    pulls,        \* next() calls the consumer has made on this query
    work,         \* renamings, unifications and built-in evaluations of this query
    renamed       \* the last _rename_variables call and the names made before it

varsU == <<heap, cur, call, ncalls>>
varsDB == <<clauses, index, dbcall>>
varsE == <<var_counter, depth_limit, goals, stack, mode, out, pulls, work, renamed>>
\* what a query leaves alone: the unification runs' variables and the database
varsFixed == <<cur, call, ncalls, clauses, index, dbcall>>
vars == <<heap, cur, call, ncalls, clauses, index, dbcall, var_counter, depth_limit,
          goals, stack, mode, out, pulls, work, renamed>>

(***************************************************************************)
(* Bounds of the model.                                                    *)
(***************************************************************************)
MaxCalls == 2

\* the largest depth_limit the engine is run with, and the largest value of
\* the renaming counter at which a further query is started
MaxDepthLimit == 4

MaxCounter == 2

\* the most clauses a database run holds at a time
MaxClauses == 3

\* "self.depth_limit = 1000"
DefaultDepthLimit == 1000

(***************************************************************************)
(* Terms (src/terms.py).  An Atom carries a string or a number; the two    *)
(* payload kinds are kept in separate fields so that value equality is     *)
(* record equality; a number is an exact fraction, so 4/2 equals 2 as      *)
(* 2.0 == 2 does.  NoTail is the None of List.tail.                        *)
(***************************************************************************)
Atom(v) == [tag |-> "Atom", isnum |-> FALSE, str |-> v, num |-> 0, den |-> 1]

\* a numeric Atom; the value is the fraction n/d in lowest terms (d = 1 for an int)
NumQ(n, d) == [tag |-> "Atom", isnum |-> TRUE, str |-> "", num |-> n, den |-> d]

Num(n) == NumQ(n, 1)

Variable(n) == [tag |-> "Variable", name |-> n]

Compound(f, as) == [tag |-> "Compound", functor |-> f, args |-> as]

NoTail == [tag |-> "None"]

ListTerm(es, tl) == [tag |-> "List", elements |-> es, tail |-> tl]

\* Python truthiness of an Optional[Term]: every term object is truthy, None is not.
Truthy(t) == t.tag # "None"

IsAtom(t) == t.tag = "Atom"

IsVariable(t) == t.tag = "Variable"

IsCompound(t) == t.tag = "Compound"

IsList(t) == t.tag = "List"

(***************************************************************************)
(* Substitution (src/unification.py).  A binding map is a function from    *)
(* variable names to terms; NoneRef is the None a failed unify returns.    *)
(***************************************************************************)
EmptyBindings == [n \in {} |-> NoTail]

NoneRef == 0

\* Substitution.bind written wrongly: the receiver's own map is extended.
bind_in_place(h, r, var_name, term) ==
    [ref |-> r,
     heap |-> [h EXCEPT ![r] = [n \in DOMAIN h[r] \cup {var_name} |->
                                   IF n = var_name THEN term ELSE h[r][n]]]]

\* Substitution.bind written wrongly: "new_bindings = self.bindings.copy()"
\* starts from an empty map
bind_without_copy(h, r, var_name, term) ==
    [ref |-> Len(h) + 1,
     heap |-> Append(h, [n \in {var_name} |-> term])]

\* Substitution.bind: copy the map, add the entry, wrap it in a new object.
bind(h, r, var_name, term) ==
    [ref |-> Len(h) + 1,
     heap |-> Append(h, [n \in DOMAIN h[r] \cup {var_name} |->
                            IF n = var_name THEN term ELSE h[r][n]])]

RECURSIVE follow(_, _)
\* the while loop of Substitution.lookup
follow(b, term) ==
    IF IsVariable(term) /\ term.name \in DOMAIN b
    THEN follow(b, b[term.name])
    ELSE term

\* Substitution.lookup: None for an unbound name, else the end of the chain.
lookup(b, var_name) ==
    IF var_name \notin DOMAIN b THEN NoTail ELSE follow(b, b[var_name])

RECURSIVE apply_once(_, _)
\* Substitution.apply written wrongly: the term found for a variable is
\* returned as it is bound ("return bound"), not applied again
apply_once(b, term) ==
    CASE IsAtom(term) -> term
      [] IsVariable(term) ->
            LET bound == lookup(b, term.name)
            IN  IF Truthy(bound) THEN bound ELSE term
      [] IsCompound(term) ->
            Compound(term.functor,
                     [i \in 1..Len(term.args) |-> apply_once(b, term.args[i])])
      [] IsList(term) ->
            ListTerm([i \in 1..Len(term.elements) |-> apply_once(b, term.elements[i])],
                     IF Truthy(term.tail) THEN apply_once(b, term.tail) ELSE NoTail)
      [] OTHER -> term

RECURSIVE apply(_, _)
\* Substitution.apply
apply(b, term) ==
    CASE IsAtom(term) -> term
      [] IsVariable(term) ->
            LET bound == lookup(b, term.name)
            IN  IF Truthy(bound) THEN apply(b, bound) ELSE term
      [] IsCompound(term) ->
            Compound(term.functor,
                     [i \in 1..Len(term.args) |-> apply(b, term.args[i])])
      [] IsList(term) ->
            ListTerm([i \in 1..Len(term.elements) |-> apply(b, term.elements[i])],
                     IF Truthy(term.tail) THEN apply(b, term.tail) ELSE NoTail)
      [] OTHER -> term

\* an occurs check that looks at the term itself and not inside it
occurs_check_shallow(var, term, b) ==
    LET t == apply(b, term) IN IsVariable(t) /\ var.name = t.name

RECURSIVE occurs_check(_, _, _)
\* occurs_check(var, term, subst)
occurs_check(var, term, b) ==
    LET t == apply(b, term)
    IN  CASE IsVariable(t) -> var.name = t.name
          [] IsCompound(t) ->
                \E i \in 1..Len(t.args) : occurs_check(var, t.args[i], b)
          [] IsList(t) ->
                \/ \E i \in 1..Len(t.elements) : occurs_check(var, t.elements[i], b)
                \/ Truthy(t.tail) /\ occurs_check(var, t.tail, b)
          [] OTHER -> FALSE

\* the tail built wrongly: the elements past min_len are dropped
list_rest_without_remaining(t, min_len) ==
    IF Truthy(t.tail) THEN t.tail ELSE ListTerm(<<>>, NoTail)

\* The tail unify builds for one list: the elements past min_len with the
\* list's own tail, or the tail itself, or a new empty list.
list_rest(t, min_len) ==
    LET remaining == SubSeq(t.elements, min_len + 1, Len(t.elements))
    IN  IF Len(remaining) > 0 THEN ListTerm(remaining, t.tail)
        ELSE IF Truthy(t.tail) THEN t.tail
        ELSE ListTerm(<<>>, NoTail)

\* "not term.elements and not term.tail"
IsEmptyList(t) == Len(t.elements) = 0 /\ ~Truthy(t.tail)

Min(m, n) == IF m < n THEN m ELSE n

\* the branch "term1 is a variable" written wrongly: the same-variable test
\* is missing and the occurs check is run on compounds and lists only
unify_variable_unscreened(t1, t2, r, h) ==
    IF ~IsVariable(t2) /\ occurs_check(t1, t2, h[r])
    THEN [ref |-> NoneRef, heap |-> h]
    ELSE bind(h, r, t1.name, t2)

\* the branch "term1 is a variable" of unify: t1 and t2 are the two terms
\* after subst.apply, t1 a variable
unify_variable(t1, t2, r, h) ==
    IF IsVariable(t2) /\ t1.name = t2.name THEN [ref |-> r, heap |-> h]
    ELSE IF occurs_check(t1, t2, h[r]) THEN [ref |-> NoneRef, heap |-> h]
    ELSE bind(h, r, t1.name, t2)

RECURSIVE unify(_, _, _, _)
RECURSIVE unify_each(_, _, _, _, _, _)
RECURSIVE unify_each_unthreaded(_, _, _, _, _, _)
\* the loops written wrongly: every pair is unified under the substitution
\* the loop was entered with, and the result of the last pair is returned
unify_each_unthreaded(xs, ys, i, n, r, h) ==
    IF i > n THEN [ref |-> r, heap |-> h]
    ELSE LET res == unify(xs[i], ys[i], r, h)
         IN  IF res.ref = NoneRef \/ i = n THEN res
             ELSE unify_each_unthreaded(xs, ys, i + 1, n, r, res.heap)

\* the loops "for arg1, arg2 in zip(...)" and "for i in range(min_len)":
\* pairs i..n are unified in turn, threading the substitution.
unify_each(xs, ys, i, n, r, h) ==
    IF i > n THEN [ref |-> r, heap |-> h]
    ELSE LET res == unify(xs[i], ys[i], r, h)
         IN  IF res.ref = NoneRef THEN res
             ELSE unify_each(xs, ys, i + 1, n, res.ref, res.heap)

\* unify(term1, term2, subst) on the substitution object r of heap h; the
\* result is the reference returned (NoneRef on failure) and the heap after.
unify(term1, term2, r, h) ==
    LET t1 == apply(h[r], term1)
        t2 == apply(h[r], term2)
        fail == [ref |-> NoneRef, heap |-> h]
        same == [ref |-> r, heap |-> h]
    IN  IF IsAtom(t1) /\ IsAtom(t2)
        THEN IF t1 = t2 THEN same ELSE fail
        ELSE IF IsVariable(t1)
        THEN unify_variable(t1, t2, r, h)
        ELSE IF IsVariable(t2)
        THEN IF occurs_check(t2, t1, h[r]) THEN fail
             ELSE bind(h, r, t2.name, t1)
        ELSE IF IsCompound(t1) /\ IsCompound(t2)
        THEN IF t1.functor # t2.functor THEN fail
             ELSE IF Len(t1.args) # Len(t2.args) THEN fail
             ELSE unify_each(t1.args, t2.args, 1, Len(t1.args), r, h)
        ELSE IF IsList(t1) /\ IsList(t2)
        THEN IF IsEmptyList(t1) /\ IsEmptyList(t2) THEN same
             ELSE IF IsEmptyList(t1) \/ IsEmptyList(t2) THEN fail
             ELSE LET min_len == Min(Len(t1.elements), Len(t2.elements))
                      res == unify_each(t1.elements, t2.elements, 1, min_len, r, h)
                  IN  IF res.ref = NoneRef THEN res
                      ELSE unify(list_rest(t1, min_len), list_rest(t2, min_len),
                                 res.ref, res.heap)
        ELSE fail

(***************************************************************************)
(* Clause database (src/database.py).                                      *)
(***************************************************************************)
Clause(head, body) == [head |-> head, body |-> body]

EmptyIndex == [f \in {} |-> <<>>]

\* Database._get_functor: "" stands for None
get_functor(term) == IF IsCompound(term) THEN term.functor ELSE ""

\* Database._update_index written wrongly: the clause is put at the front
\* of its bucket
update_index_prepend(idx, clause) ==
    LET functor == IF IsCompound(clause.head) THEN clause.head.functor ELSE ""
    IN  IF functor = "" THEN idx
        ELSE [f \in DOMAIN idx \cup {functor} |->
                 IF f = functor
                 THEN (IF f \in DOMAIN idx THEN <<clause>> \o idx[f] ELSE <<clause>>)
                 ELSE idx[f]]

\* Database._update_index; "if functor:" skips None and the empty functor
update_index(idx, clause) ==
    LET functor == get_functor(clause.head)
    IN  IF functor = "" THEN idx
        ELSE [f \in DOMAIN idx \cup {functor} |->
                 IF f = functor
                 THEN (IF f \in DOMAIN idx THEN Append(idx[f], clause) ELSE <<clause>>)
                 ELSE idx[f]]

\* Database.add_clause
add_clause(db, clause) ==
    [clauses |-> Append(db.clauses, clause),
     index |-> update_index(db.index, clause)]

\* Database.get_clauses written wrongly: the bucket is walked newest first
get_clauses_reversed(cls, idx, goal) ==
    LET functor == get_functor(goal)
        found == IF functor # "" /\ functor \in DOMAIN idx THEN idx[functor] ELSE cls
    IN  [i \in 1..Len(found) |-> found[Len(found) + 1 - i]]

\* Database.get_clauses
get_clauses(cls, idx, goal) ==
    LET functor == get_functor(goal)
    IN  IF functor # "" /\ functor \in DOMAIN idx THEN idx[functor] ELSE cls

RECURSIVE db_of(_)
\* the database after add_clause has been called on each clause in turn
db_of(cs) ==
    IF cs = <<>> THEN [clauses |-> <<>>, index |-> EmptyIndex]
    ELSE add_clause(db_of(SubSeq(cs, 1, Len(cs) - 1)), cs[Len(cs)])

RECURSIVE rebuild_index(_)
\* Database._rebuild_index: the index cleared, then _update_index on each
\* clause of the list in turn
rebuild_index(cs) ==
    IF cs = <<>> THEN EmptyIndex
    ELSE update_index(rebuild_index(SubSeq(cs, 1, Len(cs) - 1)), cs[Len(cs)])

\* "unify(clause.head, pattern, Substitution()) is not None"
head_unifies(clause, pattern) ==
    unify(clause.head, pattern, 1, <<EmptyBindings>>).ref # NoneRef

\* the loop of Database.retract written wrongly: the last match is taken
last_match(cs, pattern) ==
    LET hits == {i \in 1..Len(cs) : head_unifies(cs[i], pattern)}
    IN  IF hits = {} THEN 0 ELSE CHOOSE i \in hits : \A j \in hits : j <= i

\* the loop of Database.retract: the position of the first clause whose head
\* unifies with the pattern, 0 when the loop runs to its end
first_match(cs, pattern) ==
    LET hits == {i \in 1..Len(cs) : head_unifies(cs[i], pattern)}
    IN  IF hits = {} THEN 0 ELSE CHOOSE i \in hits : \A j \in hits : i <= j

\* Database.retract: the database after the call and the value returned
retract(db, pattern) ==
    LET i == first_match(db.clauses, pattern)
    IN  IF i = 0 THEN [clauses |-> db.clauses, index |-> db.index, result |-> FALSE]
        ELSE LET rest == SubSeq(db.clauses, 1, i - 1)
                             \o SubSeq(db.clauses, i + 1, Len(db.clauses))
             IN  [clauses |-> rest, index |-> rebuild_index(rest), result |-> TRUE]

\* Database.clear
clear(db) == [clauses |-> <<>>, index |-> EmptyIndex]

(***************************************************************************)
(* Built-in predicates (src/builtin_predicates.py).  A handler yields at   *)
(* most once: the result is the substitution yielded (NoneRef when the     *)
(* handler yields nothing) and the heap after its unify call.              *)
(***************************************************************************)
Builtins == {"=", "is", "atom", "number", "var", "nonvar",
             "<", ">", "=<", ">=", "<>", "/="}

\* _register_builtins written wrongly: the entry for "=" is missing
is_builtin_without_unify(functor) == functor \in Builtins \ {"="}

\* BuiltinRegistry.is_builtin
is_builtin(functor) == functor \in Builtins

\* the one element of a set {e(x) : x \in {v}}: the construct names a value
\* v that is computed once, as a local variable of the code is
Once(S) == CHOOSE x \in S : TRUE

Abs(n) == IF n < 0 THEN -n ELSE n

RECURSIVE Gcd(_, _)
Gcd(m, n) == IF n = 0 THEN m ELSE Gcd(n, m % n)

\* the fraction n/d in lowest terms with a positive denominator
Frac(n, d) ==
    LET g == Gcd(Abs(n), Abs(d))
        sgn == IF d < 0 THEN -1 ELSE 1
    IN  [ok |-> TRUE, n |-> sgn * (n \div g), d |-> sgn * (d \div g)]

EvalError == [ok |-> FALSE, n |-> 0, d |-> 1]

\* _eval_arithmetic written wrongly: "left // right" for "left / right"
arithmetic_floor_division(functor, left, right) ==
    CASE functor = "+" -> Frac(left.n * right.d + right.n * left.d, left.d * right.d)
      [] functor = "-" -> Frac(left.n * right.d - right.n * left.d, left.d * right.d)
      [] functor = "*" -> Frac(left.n * right.n, left.d * right.d)
      [] OTHER -> IF right.n = 0 THEN EvalError
                  ELSE Frac((left.n * right.d) \div (left.d * right.n), 1)

\* the four operations of _eval_arithmetic on two values
arithmetic(functor, left, right) ==
    CASE functor = "+" -> Frac(left.n * right.d + right.n * left.d, left.d * right.d)
      [] functor = "-" -> Frac(left.n * right.d - right.n * left.d, left.d * right.d)
      [] functor = "*" -> Frac(left.n * right.n, left.d * right.d)
      [] OTHER -> IF right.n = 0 THEN EvalError
                  ELSE Frac(left.n * right.d, left.d * right.n)

RECURSIVE eval_arithmetic(_, _)
\* BuiltinRegistry._eval_arithmetic; EvalError stands for the ValueError
\* raised.  Numbers are exact fractions: the runs use integers and halves of
\* small size, on which Python's int and float arithmetic is exact.
eval_arithmetic(expr0, bs) ==
    LET expr == apply(bs, expr0)
    IN  IF IsAtom(expr)
        THEN IF expr.isnum THEN [ok |-> TRUE, n |-> expr.num, d |-> expr.den]
             ELSE EvalError
        ELSE IF IsCompound(expr)
                  /\ expr.functor \in {"+", "-", "*", "/"} /\ Len(expr.args) = 2
        THEN Once({IF ~left.ok \/ ~right.ok THEN EvalError
                   ELSE arithmetic(functor, left, right) :
                       functor \in {expr.functor},
                       left \in {eval_arithmetic(expr.args[1], bs)},
                       right \in {eval_arithmetic(expr.args[2], bs)}})
        ELSE EvalError

\* the comparison of the handlers _less_than, _greater_than, _less_or_equal,
\* _greater_or_equal and _not_equal
compare(functor, l, r) ==
    LET x == l.n * r.d
        y == r.n * l.d
    IN  CASE functor = "<" -> x < y
          [] functor = ">" -> x > y
          [] functor = "=<" -> x <= y
          [] functor = ">=" -> x >= y
          [] OTHER -> x # y

\* the reference a handler's result carries when an exception leaves it
Raised == -1

\* "except: pass" left out: the ValueError of _eval_arithmetic leaves the
\* handler
evaluation_failed_raising(h) == [ref |-> Raised, heap |-> h]

\* "except: pass  # Evaluation failed": the handler ends and has yielded
\* nothing
evaluation_failed(h) == [ref |-> NoneRef, heap |-> h]

\* BuiltinRegistry._unify_builtin
unify_builtin(args, r, h) ==
    IF Len(args) # 2 THEN [ref |-> NoneRef, heap |-> h]
    ELSE unify(args[1], args[2], r, h)

\* _not_unifiable written wrongly: it yields the last substitution made by
\* the attempt to unify, with the bindings of the pairs that did unify
not_unifiable_leaking(args, r, h) ==
    IF Len(args) # 2 THEN [ref |-> NoneRef, heap |-> h]
    ELSE LET res == unify(args[1], args[2], r, h)
         IN  IF res.ref = NoneRef THEN [ref |-> Len(res.heap), heap |-> res.heap]
             ELSE [ref |-> NoneRef, heap |-> res.heap]

\* _not_unifiable written wrongly: the two terms are compared as the
\* substitution leaves them ("if subst.apply(args[0]) != subst.apply(args[1])")
not_unifiable_by_comparison(args, r, h) ==
    IF Len(args) # 2 THEN [ref |-> NoneRef, heap |-> h]
    ELSE IF apply(h[r], args[1]) # apply(h[r], args[2]) THEN [ref |-> r, heap |-> h]
    ELSE [ref |-> NoneRef, heap |-> h]

\* BuiltinRegistry._not_unifiable: "yield subst" when unify returns None
not_unifiable(args, r, h) ==
    IF Len(args) # 2 THEN [ref |-> NoneRef, heap |-> h]
    ELSE LET res == unify(args[1], args[2], r, h)
         IN  IF res.ref = NoneRef THEN [ref |-> r, heap |-> res.heap]
             ELSE [ref |-> NoneRef, heap |-> res.heap]

\* _is_atom written wrongly: "isinstance(term.value, str)" left out
type_test_any_atom(functor, term) ==
    CASE functor = "atom" -> IsAtom(term)
      [] functor = "number" -> IsAtom(term) /\ term.isnum
      [] functor = "var" -> IsVariable(term)
      [] OTHER -> ~IsVariable(term)

\* the isinstance tests of _is_atom, _is_number, _is_var and _is_nonvar on
\* the term subst.apply(args[0])
type_test(functor, term) ==
    CASE functor = "atom" -> IsAtom(term) /\ ~term.isnum
      [] functor = "number" -> IsAtom(term) /\ term.isnum
      [] functor = "var" -> IsVariable(term)
      [] OTHER -> ~IsVariable(term)

\* BuiltinRegistry.evaluate and the handler it dispatches to
evaluate(goal, r, h) ==
    LET args == goal.args
        functor == goal.functor
        nothing == [ref |-> NoneRef, heap |-> h]
        itself == [ref |-> r, heap |-> h]
    IN  IF ~IsCompound(goal) \/ ~is_builtin(functor) THEN nothing
        ELSE IF functor = "="
        THEN unify_builtin(args, r, h)
        ELSE IF functor = "/="
        THEN not_unifiable(args, r, h)
        ELSE IF functor = "is"
        THEN IF Len(args) # 2 THEN nothing
             ELSE Once({IF ~result.ok THEN evaluation_failed(h)
                        ELSE unify(args[1], NumQ(result.n, result.d), r, h) :
                            result \in {eval_arithmetic(apply(h[r], args[2]), h[r])}})
        ELSE IF functor \in {"atom", "number", "var", "nonvar"}
        THEN IF Len(args) # 1 THEN nothing
             ELSE IF type_test(functor, apply(h[r], args[1])) THEN itself
             ELSE nothing
        ELSE IF Len(args) # 2 THEN nothing
             ELSE Once({IF ~left.ok \/ ~right.ok THEN evaluation_failed(h)
                        ELSE IF compare(functor, left, right) THEN itself
                        ELSE nothing :
                            left \in {eval_arithmetic(args[1], h[r])},
                            right \in {eval_arithmetic(args[2], h[r])}})

(***************************************************************************)
(* The parser (src/parser.py) and the REPL's clause entry (src/repl.py).   *)
(* A text is the sequence of tokens the tokenizer makes of it, EOF last.   *)
(***************************************************************************)
Token(type, value) == [type |-> type, value |-> value]

\* SyntaxError raised by Parser.error
ParseError == [ok |-> FALSE, term |-> NoTail, pos |-> 0]

Parsed(term, pos) == [ok |-> TRUE, term |-> term, pos |-> pos]

RECURSIVE parse_term(_, _)
RECURSIVE parse_args(_, _, _)
RECURSIVE parse_elements(_, _, _)
\* the loops "while self.current_token.type != TokenType.RPAREN": the
\* arguments up to the closing parenthesis, which is consumed
parse_args(tokens, pos, args) ==
    IF tokens[pos].type = "RPAREN" THEN Parsed(args, pos + 1)
    ELSE IF tokens[pos].type = "EOF" THEN ParseError
    ELSE Once({IF ~arg.ok THEN ParseError
               ELSE parse_args(tokens, arg.pos, Append(args, arg.term)) :
                   arg \in {parse_term(tokens, pos)}})

\* the loop over the elements of a list, up to "]" or to the tail after "|";
\* the result is the list and the position of the token after it
parse_elements(tokens, pos, elements) ==
    IF tokens[pos].type = "RBRACKET" THEN Parsed(ListTerm(elements, NoTail), pos)
    ELSE IF tokens[pos].type = "PIPE"
    THEN Once({IF ~tail.ok THEN ParseError
               ELSE Parsed(ListTerm(elements, tail.term), tail.pos) :
                   tail \in {parse_term(tokens, pos + 1)}})
    ELSE Once({IF ~elem.ok THEN ParseError
               ELSE parse_elements(tokens, elem.pos, Append(elements, elem.term)) :
                   elem \in {parse_term(tokens, pos)}})

\* Parser.parse_term with the current token at pos
parse_term(tokens, pos) ==
    LET type == tokens[pos].type
        value == tokens[pos].value
    IN  IF type = "ATOM" THEN Parsed(Atom(value), pos + 1)
        ELSE IF type = "VARIABLE" THEN Parsed(Variable(value), pos + 1)
        ELSE IF type = "NUMBER" THEN Parsed(Num(value), pos + 1)
        ELSE IF type = "LPAREN"
        THEN IF tokens[pos + 1].type = "RPAREN" THEN ParseError
             ELSE IF tokens[pos + 1].type = "LPAREN"
             THEN Once({IF ~args.ok THEN ParseError
                        ELSE Parsed(Compound("", args.term), args.pos) :
                            args \in {parse_args(tokens, pos + 1, <<>>)}})
             ELSE IF tokens[pos + 1].type # "ATOM" THEN ParseError
             ELSE Once({IF ~args.ok THEN ParseError
                        ELSE Parsed(Compound(tokens[pos + 1].value, args.term),
                                    args.pos) :
                            args \in {parse_args(tokens, pos + 2, <<>>)}})
        ELSE IF type = "LBRACKET"
        THEN IF tokens[pos + 1].type = "RBRACKET"
             THEN Parsed(ListTerm(<<>>, NoTail), pos + 2)
             ELSE Once({IF ~list.ok \/ tokens[list.pos].type # "RBRACKET"
                        THEN ParseError
                        ELSE Parsed(list.term, list.pos + 1) :
                            list \in {parse_elements(tokens, pos + 1, <<>>)}})
        ELSE ParseError

\* parse_text on the tokens of a text: Parser.parse
parse(tokens) ==
    Once({IF ~term.ok \/ tokens[term.pos].type # "EOF" THEN ParseError ELSE term :
              term \in {parse_term(tokens, 1)}})

\* the clause of REPL._handle_clause written wrongly: the functor of the
\* form is not looked at, a compound first argument alone makes a rule
clause_by_first_argument(term) ==
    IF IsCompound(term) /\ Len(term.args) > 0 /\ IsCompound(term.args[1])
    THEN Clause(term.args[1], Tail(term.args))
    ELSE Clause(term, <<>>)

\* the clause REPL._handle_clause makes of the parsed form
clause_of(term) ==
    IF IsCompound(term) /\ Len(term.args) > 0
          /\ IsCompound(term.args[1]) /\ term.functor = ""
    THEN Clause(term.args[1], Tail(term.args))
    ELSE Clause(term, <<>>)

(***************************************************************************)
(* Clause renaming (src/inference.py, _rename_variables).                  *)
(***************************************************************************)
RECURSIVE rename_term(_, _)
\* rename_term: every variable gets the call's suffix; rename_map makes equal
\* names share one renamed variable, which appending the suffix does too.
rename_term(term, suffix) ==
    CASE IsVariable(term) -> Variable(term.name \o suffix)
      [] IsCompound(term) ->
            Compound(term.functor,
                     [i \in 1..Len(term.args) |-> rename_term(term.args[i], suffix)])
      [] IsList(term) ->
            ListTerm([i \in 1..Len(term.elements) |->
                         rename_term(term.elements[i], suffix)],
                     IF Truthy(term.tail) THEN rename_term(term.tail, suffix)
                     ELSE NoTail)
      [] OTHER -> term

\* _rename_variables written wrongly: the counter is stepped for every term
\* of the clause, so the head and each body goal get a suffix of their own
rename_variables_per_term(clause, counter) ==
    Clause(rename_term(clause.head, "_" \o ToString(counter)),
           [i \in 1..Len(clause.body) |->
               rename_term(clause.body[i], "_" \o ToString(counter + i))])

\* _rename_variables, given the counter value after "self._var_counter += 1"
rename_variables(clause, counter) ==
    LET suffix == "_" \o ToString(counter)
    IN  Clause(rename_term(clause.head, suffix),
               [i \in 1..Len(clause.body) |-> rename_term(clause.body[i], suffix)])

(***************************************************************************)
(* Term helpers used to state the properties.                              *)
(***************************************************************************)
RECURSIVE VarsOf(_)
\* the variable names occurring in a term
VarsOf(t) ==
    CASE IsVariable(t) -> {t.name}
      [] IsCompound(t) -> UNION {VarsOf(t.args[i]) : i \in 1..Len(t.args)}
      [] IsList(t) ->
            UNION {VarsOf(t.elements[i]) : i \in 1..Len(t.elements)}
              \cup (IF Truthy(t.tail) THEN VarsOf(t.tail) ELSE {})
      [] OTHER -> {}

\* the variable names occurring in a list of terms, and in a clause
VarsOfAll(ts) == UNION {VarsOf(ts[j]) : j \in 1..Len(ts)}

ClauseVars(c) == VarsOf(c.head) \cup VarsOfAll(c.body)

(***************************************************************************)
(* The resolution engine (src/inference.py, InferenceEngine.solve).        *)
(* solve() is a generator: every activation is a frame; pc says where the  *)
(* activation stands:                                                      *)
(*   start    entered, nothing run yet                                     *)
(*   builtin  inside "for new_subst in self.builtins.evaluate(...)"        *)
(*   clauses  inside "for clause in self.database.get_clauses(goal)",      *)
(*            i clauses of cls tried so far                                *)
(*   yielded  suspended at "yield subst" of the empty-goals base case      *)
(* counter is the value of _var_counter the clause under trial was renamed *)
(* with.                                                                   *)
(***************************************************************************)
Frame(gs, subst, depth) ==
    [goals |-> gs, subst |-> subst, depth |-> depth, pc |-> "start",
     goal |-> NoTail, remaining |-> <<>>, cls |-> <<>>, i |-> 0, counter |-> 0]

Top == stack[Len(stack)]

Running == mode = "running" /\ Len(stack) > 0

\* the frames below the top one
Below == SubSeq(stack, 1, Len(stack) - 1)

\* The top activation returns: its caller resumes, or the consumer's next()
\* ends with StopIteration when it was the outermost one.
Return ==
    /\ stack' = Below
    /\ mode' = IF Len(stack) = 1 THEN "exhausted" ELSE mode

\* "if depth > self.depth_limit" written wrongly: the cut comes two levels late
depth_exceeded_late(depth, limit) == depth > limit + 2

\* "if depth > self.depth_limit"
depth_exceeded(depth, limit) == depth > limit

\* the two checks at the top of solve in the other order: an activation
\* without goals reaches "yield subst" whatever its depth
returns_at_once_unless_proved(depth, limit, gs) ==
    depth_exceeded(depth, limit) /\ gs # <<>>

\* "if depth > self.depth_limit: return" is the first statement of solve
returns_at_once(depth, limit, gs) == depth_exceeded(depth, limit)

\* "new_goals = renamed_clause.body + remaining_goals" written wrongly: the
\* body of the rule is dropped
new_goals_without_body(renamed_clause, remaining_goals) == remaining_goals

\* "new_goals = renamed_clause.body + remaining_goals"
new_goals(renamed_clause, remaining_goals) ==
    renamed_clause.body \o remaining_goals

\* "yield subst" written wrongly: the solution is handed over and the search
\* runs on without waiting for the consumer
mode_after_yield_eager == "running"

\* the generator is suspended at "yield subst" until the consumer's next()
mode_after_yield == "yielded"

\* the clause positions chosen by the activations that are in a clause loop
DerivationPath ==
    LET at == {k \in 1..Len(stack) : stack[k].pc = "clauses"}
        nth[j \in 0..Cardinality(at)] ==
            IF j = 0 THEN 0
            ELSE CHOOSE k \in at : k > nth[j - 1] /\ \A m \in at : m > nth[j - 1] => k <= m
    IN  [j \in 1..Cardinality(at) |->
            LET f == stack[nth[j]]
            IN  CHOOSE q \in 1..Len(clauses) : clauses[q] = f.cls[f.i]
                                              /\ \A q2 \in 1..(q - 1) : clauses[q2] # f.cls[f.i]]

\* "if depth > self.depth_limit: return"
DepthCut ==
    /\ Running /\ Top.pc = "start"
    /\ returns_at_once(Top.depth, depth_limit, Top.goals)
    /\ Return
    /\ UNCHANGED <<heap, var_counter, depth_limit, goals, out, pulls, work, renamed>>
    /\ UNCHANGED varsFixed

\* "if subst is None: subst = Substitution()": the reference and the heap
\* the activation goes on with
OwnSubst(f) ==
    IF f.subst = NoneRef
    THEN [ref |-> Len(heap) + 1, heap |-> Append(heap, EmptyBindings)]
    ELSE [ref |-> f.subst, heap |-> heap]

\* "if not goals: yield subst"
Emit ==
    /\ Running /\ Top.pc = "start"
    /\ ~returns_at_once(Top.depth, depth_limit, Top.goals)
    /\ Top.goals = <<>>
    /\ LET s == OwnSubst(Top)
       IN  /\ heap' = s.heap
           /\ stack' = Append(Below, [Top EXCEPT !.subst = s.ref, !.pc = "yielded"])
           /\ out' = Append(out, [ref |-> s.ref, path |-> DerivationPath,
                                  work |-> work])
    /\ mode' = mode_after_yield
    /\ UNCHANGED <<var_counter, depth_limit, goals, pulls, work, renamed>>
    /\ UNCHANGED varsFixed

\* the "return" after "yield subst", run when the consumer asks for more
ResumeReturn ==
    /\ Running /\ Top.pc = "yielded"
    /\ Return
    /\ UNCHANGED <<heap, var_counter, depth_limit, goals, out, pulls, work, renamed>>
    /\ UNCHANGED varsFixed

\* the first goal is a built-in: the handler is run; when it yields, solve
\* recurses on the remaining goals with the yielded substitution; i counts
\* what the handler has yielded.  An exception that leaves the handler
\* leaves every activation of solve and reaches the consumer.
CallBuiltin ==
    /\ Running /\ Top.pc = "start"
    /\ ~depth_exceeded(Top.depth, depth_limit)
    /\ Top.goals # <<>>
    /\ \E s \in {OwnSubst(Top)} :
       \E goal \in {apply(s.heap[s.ref], Top.goals[1])} :
           /\ IsCompound(goal) /\ is_builtin(goal.functor)
           /\ \E res \in {evaluate(goal, s.ref, s.heap)} :
              LET remaining_goals == Tail(Top.goals)
                  me == [Top EXCEPT !.subst = s.ref, !.pc = "builtin", !.goal = goal,
                                    !.remaining = remaining_goals]
              IN  /\ heap' = res.heap
                  /\ stack' = IF res.ref = Raised THEN <<>>
                              ELSE IF res.ref = NoneRef
                              THEN Append(Below, me)
                              ELSE Append(Below, [me EXCEPT !.i = 1]) \o
                                   <<Frame(remaining_goals, res.ref, Top.depth + 1)>>
                  /\ mode' = IF res.ref = Raised THEN "raised" ELSE mode
    /\ work' = work + 1
    /\ UNCHANGED <<var_counter, depth_limit, goals, out, pulls, renamed>>
    /\ UNCHANGED varsFixed

\* the handler yields nothing (more): the loop over its results ends
BuiltinReturn ==
    /\ Running /\ Top.pc = "builtin"
    /\ Return
    /\ UNCHANGED <<heap, var_counter, depth_limit, goals, out, pulls, work, renamed>>
    /\ UNCHANGED varsFixed

\* the first goal is not a built-in: the clauses to try are fetched
SelectClauses ==
    /\ Running /\ Top.pc = "start"
    /\ ~depth_exceeded(Top.depth, depth_limit)
    /\ Top.goals # <<>>
    /\ LET s == OwnSubst(Top)
           goal == apply(s.heap[s.ref], Top.goals[1])
       IN  /\ ~(IsCompound(goal) /\ is_builtin(goal.functor))
           /\ heap' = s.heap
           /\ stack' = Append(Below,
                  [Top EXCEPT !.subst = s.ref, !.pc = "clauses", !.goal = goal,
                              !.remaining = Tail(Top.goals),
                              !.cls = get_clauses(clauses, index, goal), !.i = 0])
    /\ UNCHANGED <<var_counter, depth_limit, goals, mode, out, pulls, work, renamed>>
    /\ UNCHANGED varsFixed

\* the variable names of the query and of the goal lists of the activations
\* on the stack
ProofVars ==
    VarsOfAll(goals) \cup UNION {VarsOfAll(stack[k].goals) : k \in 1..Len(stack)}

\* one turn of the clause loop: rename the clause, unify the goal with its
\* head and, when they unify, recurse on the body and the remaining goals
TryClause ==
    /\ Running /\ Top.pc = "clauses" /\ Top.i < Len(Top.cls)
    /\ \E clause \in {Top.cls[Top.i + 1]} :
       \E renamed_clause \in {rename_variables(clause, var_counter + 1)} :
       \E res \in {unify(Top.goal, renamed_clause.head, Top.subst, heap)} :
       \E me \in {[Top EXCEPT !.i = Top.i + 1, !.counter = var_counter + 1]} :
           /\ heap' = res.heap
           /\ stack' = IF res.ref = NoneRef
                       THEN Append(Below, me)
                       ELSE Append(Below, me) \o
                            <<Frame(new_goals(renamed_clause, Top.remaining),
                                    res.ref, Top.depth + 1)>>
           /\ renamed' = [clause |-> clause, new |-> renamed_clause,
                          earlier |-> renamed.earlier \cup ClauseVars(renamed.new),
                          unified |-> res.ref # NoneRef,
                          proof |-> ProofVars]
    /\ var_counter' = var_counter + 1
    /\ work' = work + 1
    /\ UNCHANGED <<depth_limit, goals, mode, out, pulls>>
    /\ UNCHANGED varsFixed

\* the clause loop has run through every clause
ClausesDone ==
    /\ Running /\ Top.pc = "clauses" /\ Top.i = Len(Top.cls)
    /\ Return
    /\ UNCHANGED <<heap, var_counter, depth_limit, goals, out, pulls, work, renamed>>
    /\ UNCHANGED varsFixed

(***************************************************************************)
(* The atoms, variables, databases and queries the runs draw from.         *)
(***************************************************************************)
a == Atom("a")
b == Atom("b")
tom == Atom("tom")
bob == Atom("bob")
ann == Atom("ann")
mary == Atom("mary")
jane == Atom("jane")
X == Variable("X")
Y == Variable("Y")
Z == Variable("Z")
T == Variable("T")
X_1 == Variable("X_1")

parent(s, t) == Compound("parent", <<s, t>>)
grandparent(s, t) == Compound("grandparent", <<s, t>>)

\* the database of src/test_implementation.py, in its insertion order
Family ==
    <<Clause(parent(tom, bob), <<>>),
      Clause(parent(bob, ann), <<>>),
      Clause(grandparent(X, Z), <<parent(X, Y), parent(Y, Z)>>),
      Clause(parent(tom, mary), <<>>),
      Clause(parent(bob, jane), <<>>)>>

\* a left-recursive rule before its base case
LeftRecursive ==
    <<Clause(Compound("p", <<X>>), <<Compound("p", <<X>>)>>),
      Clause(Compound("p", <<a>>), <<>>)>>

\* two rules that call each other
MutuallyRecursive ==
    <<Clause(Compound("p", <<X>>), <<Compound("q", <<X>>)>>),
      Clause(Compound("q", <<X>>), <<Compound("p", <<X>>)>>),
      Clause(Compound("q", <<b>>), <<>>)>>

\* facts with variables, one of them written with a numbered name
OpenFacts ==
    <<Clause(Compound("r", <<a, X>>), <<>>),
      Clause(Compound("s", <<X, X_1>>), <<>>),
      Clause(Compound("r", <<ListTerm(<<X, a>>, T), ListTerm(<<X>>, NoTail)>>), <<>>)>>

\* rules whose bodies are built-in goals
MetaRules ==
    <<Clause(Compound("same", <<X, Y>>), <<Compound("=", <<X, Y>>)>>),
      Clause(Compound("differ", <<X, Y>>), <<Compound("/=", <<X, Y>>)>>)>>

\* a rule that tests its argument with var
VarRule ==
    <<Clause(Compound("free", <<X>>), <<Compound("var", <<X>>)>>),
      Clause(Compound("same", <<X, Y>>), <<Compound("=", <<X, Y>>)>>)>>

\* the expression (+ 2 (* 3 4)) and goals that evaluate expressions
Sum14 == Compound("+", <<Num(2), Compound("*", <<Num(3), Num(4)>>)>>)

is(s, t) == Compound("is", <<s, t>>)

\* rules whose built-in goal cannot be evaluated (a division by zero, an
\* unbound variable, a symbolic atom, an unknown operator, three arguments),
\* then one that can and a fact
ArithRules ==
    <<Clause(Compound("q", <<X>>), <<is(X, Compound("/", <<Num(1), Num(0)>>))>>),
      Clause(Compound("q", <<X>>), <<Compound("<", <<X, Num(1)>>)>>),
      Clause(Compound("q", <<X>>), <<is(X, Compound("+", <<a, Num(1)>>))>>),
      Clause(Compound("q", <<X>>), <<is(X, Compound("mod", <<Num(5), Num(2)>>))>>),
      Clause(Compound("q", <<X>>), <<Compound("is", <<X, Num(1), Num(2)>>)>>),
      Clause(Compound("q", <<X>>), <<is(X, Sum14)>>),
      Clause(Compound("q", <<b>>), <<>>)>>

Databases ==
    {<<>>, Family, LeftRecursive, MutuallyRecursive, OpenFacts, MetaRules, VarRule,
     ArithRules}

Queries ==
    {<<parent(tom, X)>>,
     <<grandparent(tom, X)>>,
     <<parent(ann, X)>>,
     <<parent(tom, X), parent(bob, Y)>>,
     <<Compound("p", <<Y>>)>>,
     <<Compound("r", <<X_1, b>>)>>,
     <<Compound("s", <<Y, Z>>)>>,
     <<Compound("var", <<X>>), Compound("=", <<X, a>>)>>,
     <<Compound("=", <<X, Compound("f", <<X>>)>>)>>,
     <<Compound("same", <<X, a>>)>>,
     <<Compound("differ", <<a, b>>)>>,
     <<Compound("free", <<Y>>), Compound("=", <<Y, a>>)>>,
     <<Compound("q", <<Z>>)>>,
     <<is(X, Sum14)>>,
     <<Compound("=", <<X, Num(15)>>), is(X, Sum14)>>,
     <<Compound("=", <<Y, Num(3)>>),
       is(X, Compound("/", <<Compound("*", <<Y, Y>>), Num(2)>>))>>,
     <<Compound("<", <<Num(1)>>)>>,
     <<Compound("=", <<X, a>>), Compound("/=", <<X, b>>)>>,
     <<Compound("/=", <<X, X>>)>>}

\* depth_limit is an attribute of the engine, 1000 on construction; the runs
\* set it to values small enough for the cut to happen.
DepthLimits == {1, 2, MaxDepthLimit}

NoRename == [clause |-> Clause(a, <<>>), new |-> Clause(a, <<>>),
             earlier |-> {}, unified |-> FALSE, proof |-> {}]

\* a new engine on an empty database, no query in flight
EngineIdle ==
    /\ var_counter = 0
    /\ goals = <<>>
    /\ stack = <<>>
    /\ mode = "idle"
    /\ out = <<>>
    /\ pulls = 0
    /\ work = 0
    /\ renamed = NoRename

(***************************************************************************)
(* The terms and the calls of the unification runs.                        *)
(***************************************************************************)

UnifyTerms ==
    {a, b, X, Y, T,
     Compound("f", <<X>>), Compound("f", <<a>>), Compound("f", <<Y>>),
     Compound("f", <<X, Y>>),
     ListTerm(<<>>, NoTail),
     ListTerm(<<Num(1), Num(2), Num(3)>>, NoTail),
     ListTerm(<<X>>, T), ListTerm(<<X>>, X), ListTerm(<<>>, X),
     ListTerm(<<a>>, NoTail)}

NoDbCall == [op |-> "none", arg |-> a, clauses |-> <<>>, index |-> EmptyIndex,
             result |-> FALSE]

NoCall == [op |-> "none", t1 |-> a, t2 |-> a, pre |-> EmptyBindings, ref |-> NoneRef]

InitU ==
    /\ heap = <<EmptyBindings>>
    /\ cur = 1
    /\ call = NoCall
    /\ dbcall = NoDbCall
    /\ ncalls = 0
    /\ clauses = <<>>
    /\ index = EmptyIndex
    /\ depth_limit = DefaultDepthLimit
    /\ EngineIdle

\* A caller unifies two terms under the substitution it holds and keeps the
\* result when there is one.  Objects no longer referenced are collected
\* before the call.
UnifyCall ==
    /\ ncalls < MaxCalls
    /\ \E term1 \in UnifyTerms, term2 \in UnifyTerms :
          LET res == unify(term1, term2, 1, <<heap[cur]>>)
          IN  /\ heap' = res.heap
              /\ cur' = IF res.ref = NoneRef THEN 1 ELSE res.ref
              /\ call' = [op |-> "unify", t1 |-> term1, t2 |-> term2,
                          pre |-> heap[cur], ref |-> res.ref]
    /\ ncalls' = ncalls + 1
    /\ UNCHANGED <<varsDB, varsE>>

\* A caller binds a name directly; the returned object is inspected and dropped.
BindCall ==
    /\ ncalls < MaxCalls
    /\ \E v \in {X, Y, T}, term \in UnifyTerms :
          LET res == bind(<<heap[cur]>>, 1, v.name, term)
          IN  /\ heap' = res.heap
              /\ cur' = 1
              /\ call' = [op |-> "bind", t1 |-> v, t2 |-> term,
                          pre |-> heap[cur], ref |-> res.ref]
    /\ ncalls' = ncalls + 1
    /\ UNCHANGED <<varsDB, varsE>>

NextU == UnifyCall \/ BindCall

SpecU == InitU /\ [][NextU]_vars

(***************************************************************************)
(* List runs: the unification runs on lists of several lengths, with and   *)
(* without tails.                                                          *)
(***************************************************************************)
ListTerms ==
    {ListTerm(<<>>, NoTail),
     ListTerm(<<a>>, NoTail),
     ListTerm(<<Y, b>>, NoTail),
     ListTerm(<<Num(1), Num(2), Num(3)>>, NoTail),
     ListTerm(<<X, Y>>, NoTail),
     ListTerm(<<X>>, T),
     ListTerm(<<>>, T),
     ListTerm(<<a, b>>, T)}

UnifyListCall ==
    /\ ncalls < MaxCalls
    /\ \E term1 \in ListTerms, term2 \in ListTerms :
          \E res \in {unify(term1, term2, 1, <<heap[cur]>>)} :
              /\ heap' = res.heap
              /\ cur' = IF res.ref = NoneRef THEN 1 ELSE res.ref
              /\ call' = [op |-> "unify", t1 |-> term1, t2 |-> term2,
                          pre |-> heap[cur], ref |-> res.ref]
    /\ ncalls' = ncalls + 1
    /\ UNCHANGED <<varsDB, varsE>>

NextL == UnifyListCall

SpecL == InitU /\ [][NextL]_vars

(***************************************************************************)
(* Built-in runs: a caller evaluates built-in goals in turn, each under    *)
(* the substitution the last successful one yielded.                       *)
(***************************************************************************)
\* the term (f s)
f_of(s) == Compound("f", <<s>>)

BuiltinGoals ==
    {Compound("=", <<X, Num(14)>>),
     Compound("=", <<X, Num(15)>>),
     Compound("=", <<Y, Num(3)>>),
     Compound("=", <<X, a>>),
     Compound("=", <<X, f_of(Y)>>),
     Compound("=", <<X, Y>>),
     is(X, Sum14),
     is(Num(14), Sum14),
     is(Num(15), Sum14),
     is(a, Sum14),
     is(X, Y),
     is(Y, X),
     is(X, Compound("/", <<Compound("*", <<Y, Y>>), Num(2)>>)),
     is(X, Compound("-", <<Num(1), Compound("/", <<Num(2), Num(4)>>)>>)),
     is(X, Compound("/", <<Y, Num(0)>>)),
     is(f_of(X), Num(3)),
     Compound("/=", <<tom, bob>>),
     Compound("/=", <<f_of(X), Compound("g", <<Y>>)>>),
     Compound("/=", <<X, X>>),
     Compound("/=", <<X, a>>),
     Compound("/=", <<X, Y>>),
     Compound("/=", <<X, f_of(Y)>>),
     Compound("/=", <<Compound("f", <<X, a>>), Compound("f", <<b, X>>)>>),
     Compound("/=", <<ListTerm(<<X, a>>, NoTail), ListTerm(<<b>>, T)>>),
     Compound("/=", <<tom>>),
     Compound("<", <<Y, Num(14)>>),
     Compound("number", <<X>>),
     Compound("atom", <<X>>),
     Compound("var", <<X>>),
     Compound("nonvar", <<X>>),
     Compound("nonvar", <<f_of(Y)>>),
     Compound("atom", <<ListTerm(<<>>, NoTail)>>),
     Compound("number", <<Num(3)>>),
     Compound("var", <<X, Y>>)}

\* BuiltinRegistry.evaluate called on a goal; the substitution yielded, if
\* any, is the one the next call is made under.  Objects no longer referenced
\* are collected before the call.
EvaluateCall ==
    /\ ncalls < MaxCalls
    /\ \E goal \in BuiltinGoals :
          \E res \in {evaluate(goal, 1, <<heap[cur]>>)} :
              /\ heap' = res.heap
              /\ cur' = IF res.ref = NoneRef THEN 1 ELSE res.ref
              /\ call' = [op |-> "evaluate", t1 |-> goal, t2 |-> goal,
                          pre |-> heap[cur], ref |-> res.ref]
    /\ ncalls' = ncalls + 1
    /\ UNCHANGED <<varsDB, varsE>>

NextB == EvaluateCall

SpecB == InitU /\ [][NextB]_vars

(***************************************************************************)
(* Database runs: a caller adds, retracts and clears clauses in any order. *)
(***************************************************************************)
hello == Atom("hello")

\* facts with compound heads, a rule, a fact whose head has a variable and a
\* fact that is an atom (the clause a line "hello" makes)
DbClauses ==
    {Clause(parent(tom, bob), <<>>),
     Clause(parent(bob, ann), <<>>),
     Clause(grandparent(X, Z), <<parent(X, Y), parent(Y, Z)>>),
     Clause(Compound("p", <<X>>), <<>>),
     Clause(hello, <<>>)}

Patterns ==
    {parent(tom, Y), parent(Y, ann), parent(bob, ann), grandparent(tom, Y),
     Compound("p", <<Compound("f", <<X>>)>>), Compound("q", <<a>>), hello, Y}

InitDB ==
    /\ heap = <<EmptyBindings>>
    /\ cur = 1
    /\ call = NoCall
    /\ ncalls = 0
    /\ clauses = <<>>
    /\ index = EmptyIndex
    /\ dbcall = NoDbCall
    /\ depth_limit = DefaultDepthLimit
    /\ EngineIdle

\* the record of a database call: the call, its argument, the database
\* before it and the value returned
DbCall(op, arg, result) ==
    [op |-> op, arg |-> arg, clauses |-> clauses, index |-> index, result |-> result]

AddClause ==
    /\ Len(clauses) < MaxClauses
    /\ \E clause \in DbClauses :
          LET db == add_clause([clauses |-> clauses, index |-> index], clause)
          IN  /\ clauses' = db.clauses
              /\ index' = db.index
              /\ dbcall' = DbCall("add_clause", clause.head, FALSE)
    /\ UNCHANGED <<varsU, varsE>>

Retract ==
    /\ \E pattern \in Patterns :
          LET db == retract([clauses |-> clauses, index |-> index], pattern)
          IN  /\ clauses' = db.clauses
              /\ index' = db.index
              /\ dbcall' = DbCall("retract", pattern, db.result)
    /\ UNCHANGED <<varsU, varsE>>

Clear ==
    /\ LET db == clear([clauses |-> clauses, index |-> index])
       IN  /\ clauses' = db.clauses
           /\ index' = db.index
    /\ dbcall' = DbCall("clear", a, FALSE)
    /\ UNCHANGED <<varsU, varsE>>

NextDB == AddClause \/ Retract \/ Clear

SpecDB == InitDB /\ [][NextDB]_vars

(***************************************************************************)
(* Clause entry: the user types clauses at the REPL, some of them wrong.   *)
(***************************************************************************)
LP == Token("LPAREN", "(")
RP == Token("RPAREN", ")")
LB == Token("LBRACKET", "[")
RB == Token("RBRACKET", "]")
Bar == Token("PIPE", "|")
EOF == Token("EOF", "")
At(value) == Token("ATOM", value)
Var(name) == Token("VARIABLE", name)

\* (parent tom bob), the grandparent rule, (likes (f a) b), hello, ((p X)),
\* (p [a | T]), (((p)) (q)), X, and the wrong (), (X a), (p a and (p) b
ClauseTexts ==
    {<<LP, At("parent"), At("tom"), At("bob"), RP, EOF>>,
     <<LP, LP, At("grandparent"), Var("X"), Var("Z"), RP,
           LP, At("parent"), Var("X"), Var("Y"), RP,
           LP, At("parent"), Var("Y"), Var("Z"), RP, RP, EOF>>,
     <<LP, At("likes"), LP, At("f"), At("a"), RP, At("b"), RP, EOF>>,
     <<At("hello"), EOF>>,
     <<LP, LP, At("p"), Var("X"), RP, RP, EOF>>,
     <<LP, At("p"), LB, At("a"), Bar, Var("T"), RB, RP, EOF>>,
     <<LP, LP, LP, At("p"), RP, RP, LP, At("q"), RP, RP, EOF>>,
     <<Var("X"), EOF>>,
     <<LP, RP, EOF>>,
     <<LP, Var("X"), At("a"), RP, EOF>>,
     <<LP, At("p"), At("a"), EOF>>,
     <<LP, At("p"), RP, At("b"), EOF>>}

\* REPL._handle_clause: the text is parsed and the clause made of the form
\* is added; a SyntaxError is reported and nothing is added
HandleClause ==
    /\ Len(clauses) < MaxClauses
    /\ \E clause_text \in ClauseTexts :
          \E term \in {parse(clause_text)} :
              IF term.ok
              THEN LET db == add_clause([clauses |-> clauses, index |-> index],
                                        clause_of(term.term))
                   IN  /\ clauses' = db.clauses
                       /\ index' = db.index
                       /\ dbcall' = DbCall("clause", term.term, TRUE)
              ELSE /\ dbcall' = DbCall("clause", a, FALSE)
                   /\ UNCHANGED <<clauses, index>>
    /\ UNCHANGED <<varsU, varsE>>

NextR == HandleClause

SpecR == InitDB /\ [][NextR]_vars

(***************************************************************************)
(* Queries: a consumer iterates the generator returned by solve(goals),    *)
(* as REPL._handle_regular_query does, asking for one solution at a time   *)
(* and stopping when it likes.                                             *)
(***************************************************************************)
Init ==
    /\ heap = <<>>
    /\ cur = 0
    /\ call = NoCall
    /\ dbcall = NoDbCall
    /\ ncalls = 0
    /\ \E cs \in Databases :
          /\ clauses = db_of(cs).clauses
          /\ index = db_of(cs).index
    /\ depth_limit \in DepthLimits
    /\ EngineIdle

\* "self.engine.solve(goals)": the generator object is made, nothing runs yet
StartQuery ==
    /\ mode = "idle"
    /\ var_counter < MaxCounter
    /\ \E q \in Queries : goals' = q /\ stack' = <<Frame(q, NoneRef, 0)>>
    /\ mode' = "created"
    /\ heap' = <<>>
    /\ out' = <<>>
    /\ pulls' = 0
    /\ work' = 0
    /\ renamed' = [NoRename EXCEPT !.earlier = renamed.earlier \cup ClauseVars(renamed.new)]
    /\ UNCHANGED <<var_counter, depth_limit>>
    /\ UNCHANGED varsFixed

\* the consumer's next(): the generator runs on from where it stands
Pull ==
    /\ mode \in {"created", "yielded"}
    /\ mode' = "running"
    /\ pulls' = pulls + 1
    /\ UNCHANGED <<heap, var_counter, depth_limit, goals, stack, out, work, renamed>>
    /\ UNCHANGED varsFixed

\* the consumer stops iterating ("break"): the generator is dropped
Abandon ==
    /\ mode = "yielded"
    /\ mode' = "idle"
    /\ stack' = <<>>
    /\ UNCHANGED <<heap, var_counter, depth_limit, goals, out, pulls, work, renamed>>
    /\ UNCHANGED varsFixed

\* the loop over the solutions has ended with StopIteration
Finish ==
    /\ mode = "exhausted"
    /\ mode' = "idle"
    /\ UNCHANGED <<heap, var_counter, depth_limit, goals, stack, out, pulls, work, renamed>>
    /\ UNCHANGED varsFixed

Next ==
    \/ StartQuery
    \/ Pull
    \/ Abandon
    \/ Finish
    \/ DepthCut
    \/ Emit
    \/ ResumeReturn
    \/ CallBuiltin
    \/ BuiltinReturn
    \/ SelectClauses
    \/ TryClause
    \/ ClausesDone

Spec == Init /\ [][Next]_vars

\* One query drained to the end: the consumer asks again after every solution.
InitDrain ==
    /\ heap = <<>>
    /\ cur = 0
    /\ call = NoCall
    /\ dbcall = NoDbCall
    /\ ncalls = 0
    /\ \E cs \in Databases :
          /\ clauses = db_of(cs).clauses
          /\ index = db_of(cs).index
    /\ depth_limit \in DepthLimits
    /\ var_counter = 0
    /\ \E q \in Queries : goals = q /\ stack = <<Frame(q, NoneRef, 0)>>
    /\ mode = "created"
    /\ out = <<>>
    /\ pulls = 0
    /\ work = 0
    /\ renamed = NoRename

NextDrain ==
    \/ Pull
    \/ DepthCut
    \/ Emit
    \/ ResumeReturn
    \/ CallBuiltin
    \/ BuiltinReturn
    \/ SelectClauses
    \/ TryClause
    \/ ClausesDone

SpecDrain == InitDrain /\ [][NextDrain]_vars /\ WF_vars(NextDrain)

(***************************************************************************)
(* Queries against a database whose clauses carry the names of built-ins   *)
(* in their heads.                                                         *)
(***************************************************************************)
\* facts named after built-ins, at the arity of the built-in and at another,
\* a fact of the user's own and a rule whose body is the goal it is given
Shadowed ==
    <<Clause(Compound("=", <<a, b>>), <<>>),
      Clause(Compound("atom", <<X, Y>>), <<>>),
      Clause(Compound("p", <<a>>), <<>>),
      Clause(Compound("call", <<X>>), <<X>>)>>

ShadowQueries ==
    {<<Compound("=", <<a, b>>)>>,
     <<Compound("=", <<X, a>>)>>,
     <<Compound("atom", <<a, b>>)>>,
     <<Compound("atom", <<a>>)>>,
     <<Compound("p", <<X>>), Compound("=", <<X, b>>)>>,
     <<Compound("call", <<Compound("=", <<a, b>>)>>)>>,
     <<Compound("call", <<Compound("p", <<Y>>)>>)>>,
     <<Compound("call", <<Y>>)>>,
     <<Y>>,
     <<a>>}

InitS ==
    /\ heap = <<>>
    /\ cur = 0
    /\ call = NoCall
    /\ dbcall = NoDbCall
    /\ ncalls = 0
    /\ clauses = db_of(Shadowed).clauses
    /\ index = db_of(Shadowed).index
    /\ depth_limit \in DepthLimits
    /\ EngineIdle

\* "self.engine.solve(goals)" for one of the queries above
StartShadowQuery ==
    /\ mode = "idle"
    /\ var_counter < MaxCounter
    /\ \E q \in ShadowQueries : goals' = q /\ stack' = <<Frame(q, NoneRef, 0)>>
    /\ mode' = "created"
    /\ heap' = <<>>
    /\ out' = <<>>
    /\ pulls' = 0
    /\ work' = 0
    /\ renamed' = [NoRename EXCEPT !.earlier = renamed.earlier \cup ClauseVars(renamed.new)]
    /\ UNCHANGED <<var_counter, depth_limit>>
    /\ UNCHANGED varsFixed

NextS ==
    \/ StartShadowQuery
    \/ Pull
    \/ Abandon
    \/ Finish
    \/ DepthCut
    \/ Emit
    \/ ResumeReturn
    \/ CallBuiltin
    \/ BuiltinReturn
    \/ SelectClauses
    \/ TryClause
    \/ ClausesDone

SpecS == InitS /\ [][NextS]_vars

(***************************************************************************)
(* Properties of unification and substitutions (checked under SpecU).      *)
(***************************************************************************)
\* X occurs in t, as written or once the bindings sigma are applied.
ContainsVar(v, t, sigma) ==
    v.name \in VarsOf(t) \/ v.name \in VarsOf(apply(sigma, t))

IsStructure(t) == IsCompound(t) \/ IsList(t)

\* a compound, or a list that has at least one element
IsProperStructure(t) == IsCompound(t) \/ (IsList(t) /\ Len(t.elements) > 0)

\* C1: if unify(s, t, empty substitution) returns sigma, then sigma.apply(s)
\* and sigma.apply(t) are structurally equal terms.
C1_UnifierCorrect ==
    (call.op = "unify" /\ call.pre = EmptyBindings /\ call.ref # NoneRef)
        => apply(heap[call.ref], call.t1) = apply(heap[call.ref], call.t2)

\* the call failed, and so does the goal (= t1 t2) under the same substitution
CallAndGoalFail ==
    /\ call.ref = NoneRef
    /\ evaluate(Compound("=", <<call.t1, call.t2>>), 1, <<call.pre>>).ref = NoneRef

\* C2 as stated: unify(X, t, sigma) fails, in either argument order, whenever
\* t is a compound or a list that contains X directly or through sigma, and
\* the goal (= X t) has no solution.
C2_OccursCheckAnyList ==
    call.op = "unify" =>
        /\ (IsVariable(call.t1) /\ IsStructure(call.t2)
              /\ ContainsVar(call.t1, call.t2, call.pre)) => CallAndGoalFail
        /\ (IsVariable(call.t2) /\ IsStructure(call.t1)
              /\ ContainsVar(call.t2, call.t1, call.pre)) => CallAndGoalFail

\* C2 amended: unify(X, t, sigma) fails, in either argument order, whenever t
\* is a compound, or a list with at least one element, that contains X
\* directly or through the bindings of sigma, and the goal (= X t) has no
\* solution.
C2_OccursCheck ==
    call.op = "unify" =>
        /\ (IsVariable(call.t1) /\ IsProperStructure(call.t2)
              /\ ContainsVar(call.t1, call.t2, call.pre)) => CallAndGoalFail
        /\ (IsVariable(call.t2) /\ IsProperStructure(call.t1)
              /\ ContainsVar(call.t2, call.t1, call.pre)) => CallAndGoalFail

\* unify(X, [X | X]) under a substitution that already binds another variable
\* to a term holding X has been tried
C2_Witness ==
    /\ call.op = "unify"
    /\ call.t1 = X
    /\ call.t2 = ListTerm(<<X>>, X)
    /\ call.pre # EmptyBindings
    /\ "X" \notin DOMAIN call.pre
    /\ call.ref = NoneRef

\* C10: bind returns a new substitution object and leaves the receiver's
\* bindings as they were; unify leaves the substitution it was given as it
\* was, whether it succeeds or fails.
C10_Persistent ==
    call.op # "none" =>
        /\ heap[1] = call.pre
        /\ call.op = "bind" =>
              /\ call.ref \notin {NoneRef, 1}
              /\ DOMAIN heap[call.ref] = DOMAIN call.pre \cup {call.t1.name}
              /\ heap[call.ref][call.t1.name] = call.t2

\* a unify call on a non-empty substitution that added bindings
C10_Witness ==
    /\ call.op = "unify"
    /\ call.pre # EmptyBindings
    /\ call.ref > 1
    /\ DOMAIN heap[call.ref] # DOMAIN call.pre

(***************************************************************************)
(* Reference semantics of a program: the ground atoms derivable from the   *)
(* clauses, computed bottom-up and independently of solve.  It is what the *)
(* answers of the engine are compared with.                                *)
(***************************************************************************)
\* the constants of the scenarios: the Herbrand universe of the comparison
Constants == {a, b, tom, bob, ann, mary, jane, Num(14)}

\* the ground assignments of a set of variable names
Assign(names) == [names -> Constants]

RECURSIVE Inst(_, _)
\* the instance of a term under a ground assignment
Inst(t, g) ==
    CASE IsVariable(t) -> IF t.name \in DOMAIN g THEN g[t.name] ELSE t
      [] IsCompound(t) ->
            Compound(t.functor, [j \in 1..Len(t.args) |-> Inst(t.args[j], g)])
      [] IsList(t) ->
            ListTerm([j \in 1..Len(t.elements) |-> Inst(t.elements[j], g)],
                     IF t.tail = NoTail THEN NoTail ELSE Inst(t.tail, g))
      [] OTHER -> t

RECURSIVE WellFormed(_)
RECURSIVE RefValue(_)
\* the value of an arithmetic expression as a pair <<numerator, denominator>>
\* with a positive denominator, by the rules of arithmetic
RefValue(e) ==
    IF IsAtom(e) THEN <<e.num, e.den>>
    ELSE LET l == RefValue(e.args[1])
             r == RefValue(e.args[2])
         IN  CASE e.functor = "+" -> <<l[1] * r[2] + r[1] * l[2], l[2] * r[2]>>
               [] e.functor = "-" -> <<l[1] * r[2] - r[1] * l[2], l[2] * r[2]>>
               [] e.functor = "*" -> <<l[1] * r[1], l[2] * r[2]>>
               [] OTHER -> IF r[1] < 0 THEN <<-(l[1] * r[2]), -(l[2] * r[1])>>
                           ELSE <<l[1] * r[2], l[2] * r[1]>>

\* an expression that has a value: numbers under +, -, * and /, no division
\* by zero
WellFormed(e) ==
    \/ IsAtom(e) /\ e.isnum
    \/ /\ IsCompound(e)
       /\ e.functor \in {"+", "-", "*", "/"}
       /\ Len(e.args) = 2
       /\ WellFormed(e.args[1])
       /\ WellFormed(e.args[2])
       /\ e.functor = "/" => RefValue(e.args[2])[1] # 0

SameValue(p, q) == p[1] * q[2] = q[1] * p[2]

Compares(functor, p, q) ==
    CASE functor = "<" -> p[1] * q[2] < q[1] * p[2]
      [] functor = ">" -> p[1] * q[2] > q[1] * p[2]
      [] functor = "=<" -> p[1] * q[2] <= q[1] * p[2]
      [] functor = ">=" -> p[1] * q[2] >= q[1] * p[2]
      [] OTHER -> p[1] * q[2] # q[1] * p[2]

\* whether a ground goal holds, given the ground atoms M of the user
\* predicates: a built-in goal by the meaning of the built-in, any other goal
\* by membership in M
GroundHolds(g, M) ==
    IF IsCompound(g) /\ g.functor \in Builtins
    THEN CASE g.functor = "=" -> Len(g.args) = 2 /\ g.args[1] = g.args[2]
           [] g.functor = "/=" -> Len(g.args) = 2 /\ g.args[1] # g.args[2]
           [] g.functor = "var" -> FALSE
           [] g.functor = "nonvar" -> Len(g.args) = 1
           [] g.functor = "atom" ->
                 Len(g.args) = 1 /\ IsAtom(g.args[1]) /\ ~g.args[1].isnum
           [] g.functor = "number" ->
                 Len(g.args) = 1 /\ IsAtom(g.args[1]) /\ g.args[1].isnum
           [] g.functor = "is" ->
                 /\ Len(g.args) = 2
                 /\ IsAtom(g.args[1]) /\ g.args[1].isnum
                 /\ WellFormed(g.args[2])
                 /\ SameValue(RefValue(g.args[1]), RefValue(g.args[2]))
           [] OTHER ->
                 /\ Len(g.args) = 2
                 /\ WellFormed(g.args[1]) /\ WellFormed(g.args[2])
                 /\ Compares(g.functor, RefValue(g.args[1]), RefValue(g.args[2]))
    ELSE g \in M

\* one round of derivation: the heads of the ground clause instances whose
\* body holds in M; a built-in body goal is a leaf of the proof tree, and
\* leaves says whether the tree has room for one
Consequences(M, leaves) ==
    UNION {{Inst(clauses[c].head, g) :
               g \in {h \in Assign(ClauseVars(clauses[c])) :
                         \A j \in 1..Len(clauses[c].body) :
                             LET goal == Inst(clauses[c].body[j], h)
                             IN  /\ GroundHolds(goal, M)
                                 /\ (IsCompound(goal) /\ goal.functor \in Builtins)
                                        => leaves}} :
           c \in 1..Len(clauses)}

RECURSIVE Derivable(_)
\* the ground atoms that have a proof tree of depth at most d
Derivable(d) ==
    IF d = 0 THEN {} ELSE Consequences(Derivable(d - 1), d > 1)

RECURSIVE Closure(_)
\* the least set closed under derivation that contains M
Closure(M) ==
    LET N == M \cup Consequences(M, TRUE) IN IF N = M THEN M ELSE Closure(N)

LeastModel == Closure({})

\* the goals of the query as an emitted substitution leaves them
Answer(k) == [j \in 1..Len(goals) |-> apply(heap[out[k].ref], goals[j])]

\* every ground instance of every goal of the k-th answer holds
AnswerHolds(k) ==
    \A j \in 1..Len(goals) :
        \A g \in Assign(VarsOf(Answer(k)[j])) :
            GroundHolds(Inst(Answer(k)[j], g), LeastModel)

IsVarGoal(t) == IsCompound(t) /\ t.functor = "var"

\* whether the query or a clause body holds a var goal
UsesVar ==
    \/ \E j \in 1..Len(goals) : IsVarGoal(goals[j])
    \/ \E c \in 1..Len(clauses) :
          \E j \in 1..Len(clauses[c].body) : IsVarGoal(clauses[c].body[j])

\* C3 as stated: every substitution emitted by solve makes every goal of the
\* query provable from the clauses and the built-ins.
C3_SoundAny == \A k \in 1..Len(out) : AnswerHolds(k)

\* whether a clause of the database has the name of a built-in as the
\* functor of its head
ShadowsBuiltin ==
    \E c \in 1..Len(clauses) :
        IsCompound(clauses[c].head) /\ clauses[c].head.functor \in Builtins

\* C3 amended: every substitution emitted by solve makes every goal of the
\* query provable from the clauses and the built-ins, provided neither the
\* query nor a clause body holds a var goal and no clause head carries the
\* name of a built-in.
C3_Sound == (~UsesVar /\ ~ShadowsBuiltin) => \A k \in 1..Len(out) : AnswerHolds(k)

\* both grandchildren of tom have been emitted, each through the rule
C3_Witness ==
    /\ goals = <<grandparent(tom, X)>>
    /\ Len(out) = 2
    /\ Answer(1) # Answer(2)
    /\ ~UsesVar
    /\ ~ShadowsBuiltin

\* whether the ground term g is an instance of the term t
IsInstance(g, t) == \E d \in Assign(VarsOf(t)) : Inst(t, d) = g

\* whether path p leaves path q at an earlier clause where they first differ
LexBefore(p, q) ==
    \E i \in 1..Min(Len(p), Len(q)) :
        /\ \A j \in 1..(i - 1) : p[j] = q[j]
        /\ p[i] < q[i]

\* the solutions come out in depth-first, insertion order, none twice
InSearchOrder ==
    \A j, k \in 1..Len(out) : j < k => LexBefore(out[j].path, out[k].path)

\* C4: for a goal whose proof tree has depth at most the depth limit, the
\* drained solve emits every solution, each once, in depth-first
\* left-to-right insertion order.
C4_Complete ==
    (mode = "exhausted" /\ Len(goals) = 1) =>
        /\ \A g \in Assign(VarsOf(goals[1])) :
              GroundHolds(Inst(goals[1], g), Derivable(depth_limit))
                  => \E k \in 1..Len(out) : IsInstance(Inst(goals[1], g), Answer(k)[1])
        /\ InSearchOrder

\* C5: of two solutions, the one whose derivation takes the clause inserted
\* earlier at the first choice point where the derivations differ is emitted
\* first; on the family database (grandparent tom X) gives ann, then jane.
C5_Order ==
    /\ InSearchOrder
    /\ ( /\ mode = "exhausted"
         /\ clauses = Family
         /\ goals = <<grandparent(tom, X)>>
         /\ depth_limit = MaxDepthLimit )
          => [k \in 1..Len(out) |-> Answer(k)[1]]
                 = <<grandparent(tom, ann), grandparent(tom, jane)>>

\* the grandparent query has been drained and gave two solutions
C5_Witness ==
    /\ mode = "exhausted"
    /\ clauses = Family
    /\ goals = <<grandparent(tom, X)>>
    /\ Len(out) = 2

\* C6: no solution is produced that the consumer did not ask for, and while
\* the consumer holds k solutions and has not pulled again the engine is
\* suspended and has done no renaming, unification or built-in evaluation
\* since the last solution (so no more than k+1 branches past it).
C6_Lazy ==
    /\ Len(out) <= pulls
    /\ mode # "running" => stack = <<>> \/ Top.pc \in {"start", "yielded"}
    /\ (Len(out) = pulls /\ pulls > 0) =>
          /\ mode # "running"
          /\ work = out[Len(out)].work
          /\ work - out[Len(out)].work <= Len(out) + 1

\* the consumer stopped after one solution of a query that has two
C6_Witness ==
    /\ mode = "idle"
    /\ goals = <<grandparent(tom, X)>>
    /\ clauses = Family
    /\ Len(out) = 1
    /\ pulls = 1

C8_RenameFresh ==
    /\ ClauseVars(renamed.new) \cap ClauseVars(renamed.clause) = {}
    /\ ClauseVars(renamed.new) \cap renamed.earlier = {}

\* C9: the variables of a renamed clause are none of the variables of the
\* query or of the goal lists of the activations above it.
C9_Hygiene == ClauseVars(renamed.new) \cap renamed.proof = {}

(***************************************************************************)
(* Well-formedness of substitutions (checked under SpecU).                 *)
(***************************************************************************)
\* the entry name |-> Variable(name) is in the binding map m
SelfBound(m) == \E n \in DOMAIN m : m[n] = Variable(n)

\* C11: bind(name, term) fails exactly when term is the variable called
\* name, and then no substitution holding the entry name |-> name is made.
C11_InvalidBind ==
    call.op = "bind" =>
        /\ call.ref = NoneRef <=> call.t2 = call.t1
        /\ call.t2 = call.t1 => \A r \in 1..Len(heap) : ~SelfBound(heap[r])

\* the substitution objects that unify calls have produced or been given: in
\* a unification run every object but the one a bind call has just returned
MadeByUnify == {r \in 1..Len(heap) : ~(call.op = "bind" /\ r = call.ref)}

\* C12: no substitution reached from the empty one by unify calls has an
\* entry that binds a variable to itself.
C12_NoSelfBinding == \A r \in MadeByUnify : ~SelfBound(heap[r])

\* a second unify call has bound a variable to another variable
C12_Witness ==
    /\ call.op = "unify"
    /\ call.pre # EmptyBindings
    /\ call.ref # NoneRef
    /\ \E n \in DOMAIN heap[call.ref] \ DOMAIN call.pre : IsVariable(heap[call.ref][n])

RECURSIVE ReachedFrom(_, _, _)
\* the variable names met within k steps through the bindings m, from names S
ReachedFrom(m, S, k) ==
    IF k = 0 THEN S
    ELSE ReachedFrom(m, S \cup UNION {VarsOf(m[n]) : n \in S \cap DOMAIN m}, k - 1)

\* no bound name is met again by going through the terms bound
Acyclic(m) ==
    \A n \in DOMAIN m : n \notin ReachedFrom(m, VarsOf(m[n]), Cardinality(DOMAIN m))

\* C13: the bindings of a substitution reached from the empty one by unify
\* calls have no cycle, and lookup and apply come to an end on every term,
\* leaving no bound variable in the result.
C13_NoCycle ==
    \A r \in MadeByUnify :
        /\ Acyclic(heap[r])
        /\ \A n \in DOMAIN heap[r] :
              ~(IsVariable(lookup(heap[r], n)) /\ lookup(heap[r], n).name \in DOMAIN heap[r])
        /\ \A t \in UnifyTerms : VarsOf(apply(heap[r], t)) \cap DOMAIN heap[r] = {}

\* two unify calls have left a binding whose term holds a bound variable
C13_Witness ==
    /\ call.op = "unify"
    /\ call.ref # NoneRef
    /\ \E n \in DOMAIN heap[call.ref] :
          /\ ~IsVariable(heap[call.ref][n])
          /\ VarsOf(heap[call.ref][n]) \cap DOMAIN heap[call.ref] # {}

\* C14: for a substitution sigma produced by unify and a term t,
\* sigma.apply(sigma.apply(t)) is structurally equal to sigma.apply(t).
C14_Idempotent ==
    \A r \in MadeByUnify :
        \A t \in UnifyTerms :
            apply(heap[r], apply(heap[r], t)) = apply(heap[r], t)

\* unify calls have produced a substitution that changes [X | T] in its
\* element, through a binding whose term holds another bound variable, and
\* in its tail
C14_Witness ==
    /\ call.op = "unify"
    /\ call.ref # NoneRef
    /\ {"X", "T"} \subseteq DOMAIN heap[call.ref]
    /\ VarsOf(heap[call.ref]["X"]) \cap DOMAIN heap[call.ref] # {}
    /\ IsList(apply(heap[call.ref], T))

(***************************************************************************)
(* Properties of the clause database (checked under SpecDB).               *)
(***************************************************************************)
\* the clauses of the list whose head is a compound with functor f, in order
WithFunctor(f) ==
    SelectSeq(clauses, LAMBDA c : IsCompound(c.head) /\ c.head.functor = f)

\* the goals get_clauses is asked for: compounds with and without clauses,
\* an atom and a variable
DbGoals == Patterns \cup {Compound("", <<a>>)}

\* get_clauses gives the bucket of an indexed functor, which holds the
\* clauses with that head functor in insertion order, and else the whole list
RetrievalRight ==
    \A goal \in DbGoals :
        get_clauses(clauses, index, goal) =
            IF IsCompound(goal) /\ goal.functor \in DOMAIN index
            THEN WithFunctor(goal.functor)
            ELSE clauses

\* clause i of the list is in the bucket of its head's functor
InBucket(i) ==
    /\ IsCompound(clauses[i].head)
    /\ clauses[i].head.functor \in DOMAIN index
    /\ \E j \in 1..Len(index[clauses[i].head.functor]) :
          index[clauses[i].head.functor][j] = clauses[i]

\* C15 as stated: after any sequence of add_clause, retract and clear every
\* clause of the list is in the index bucket of its head's functor, and
\* get_clauses returns the bucket of an indexed functor and else the list.
C15_IndexConsistentAnyHead ==
    /\ \A i \in 1..Len(clauses) : InBucket(i)
    /\ RetrievalRight

\* C15 amended: after any sequence of add_clause, retract and clear every
\* clause of the list whose head is a compound with a non-empty functor is in
\* the index bucket of that functor, and get_clauses returns the bucket of
\* an indexed functor and else the list.
C15_IndexConsistent ==
    /\ \A i \in 1..Len(clauses) :
          (IsCompound(clauses[i].head) /\ clauses[i].head.functor # "") => InBucket(i)
    /\ RetrievalRight

\* a retract has removed a clause and the list still holds two different
\* clauses with the head functor parent
C15_Witness ==
    /\ dbcall.op = "retract"
    /\ dbcall.result
    /\ Len(clauses) = 2
    /\ "parent" \in DOMAIN index
    /\ Len(index["parent"]) = 2
    /\ index["parent"][1] # index["parent"][2]

\* the sequence s without its i-th element
Without(s, i) == SubSeq(s, 1, i - 1) \o SubSeq(s, i + 1, Len(s))

\* the index holds, for each functor of a compound head in the list and for
\* nothing else, the clauses with that head functor in insertion order
IndexRebuilt ==
    /\ DOMAIN index = {clauses[i].head.functor :
                          i \in {j \in 1..Len(clauses) : /\ IsCompound(clauses[j].head)
                                                         /\ clauses[j].head.functor # ""}}
    /\ \A f \in DOMAIN index : index[f] = WithFunctor(f)

\* C16: retract(pattern) removes the first clause in insertion order whose
\* head unifies with pattern under a new empty substitution and no other,
\* keeps the order of the rest, rebuilds the index and returns true; when no
\* head unifies it returns false and the list and the index are as before.
C16_Retract ==
    dbcall.op = "retract" =>
        LET before == dbcall.clauses
            hits == {i \in 1..Len(before) : head_unifies(before[i], dbcall.arg)}
        IN  IF hits = {}
            THEN /\ ~dbcall.result
                 /\ clauses = before
                 /\ index = dbcall.index
            ELSE /\ dbcall.result
                 /\ \E i \in hits : /\ \A j \in hits : i <= j
                                    /\ clauses = Without(before, i)
                 /\ IndexRebuilt

\* a retract whose pattern matched several clauses has removed the first of
\* three and left the two others
C16_Witness ==
    /\ dbcall.op = "retract"
    /\ dbcall.result
    /\ Len(dbcall.clauses) = 3
    /\ \A i \in 1..3 : head_unifies(dbcall.clauses[i], dbcall.arg)
    /\ dbcall.clauses[1] # dbcall.clauses[3]
    /\ clauses = Tail(dbcall.clauses)

(***************************************************************************)
(* Properties of the built-in predicates.                                  *)
(***************************************************************************)
\* the number of arguments a built-in predicate takes
Arity(functor) == IF functor \in {"atom", "number", "var", "nonvar"} THEN 1 ELSE 2

\* a built-in goal, as resolved, that has the wrong number of arguments or is
\* an arithmetic one over an expression without a value: a division by zero,
\* an unbound variable, a symbolic atom or an unknown operator in it
Faulty(goal) ==
    \/ Len(goal.args) # Arity(goal.functor)
    \/ goal.functor = "is" /\ ~WellFormed(goal.args[2])
    \/ /\ goal.functor \in {"<", ">", "=<", ">=", "<>"}
       /\ ~WellFormed(goal.args[1]) \/ ~WellFormed(goal.args[2])

\* C17: a built-in goal with the wrong number of arguments, or an arithmetic
\* one whose expression has no value, gives no solution and no exception
\* leaves solve; the search goes on with the next alternative: (q Z) over the
\* rules with such bodies still gives 14 and b.
C17_SilentFailure ==
    /\ mode # "raised"
    /\ \A k \in 1..Len(stack) :
          (stack[k].pc = "builtin" /\ Faulty(stack[k].goal)) => stack[k].i = 0
    /\ ( /\ mode = "exhausted"
         /\ clauses = ArithRules
         /\ goals = <<Compound("q", <<Z>>)>>
         /\ depth_limit >= 2 )
          => [k \in 1..Len(out) |-> Answer(k)[1]]
                 = <<Compound("q", <<Num(14)>>), Compound("q", <<b>>)>>

\* the division by zero in the body of the first rule for q has been
\* evaluated, and the search went on to the solutions of the later clauses
C17_Witness ==
    /\ mode = "exhausted"
    /\ clauses = ArithRules
    /\ goals = <<Compound("q", <<Z>>)>>
    /\ Len(out) = 2


\* the numeric atom of the value of an expression
ValueAtom(e) ==
    LET v == RefValue(e)
        g == Gcd(Abs(v[1]), v[2])
    IN  NumQ(v[1] \div g, v[2] \div g)

\* the call was (is A Expr) and Expr, under the substitution of the call,
\* is an expression over +, -, * and / on numbers
IsCall ==
    /\ call.op = "evaluate"
    /\ call.t1.functor = "is" /\ Len(call.t1.args) = 2
    /\ WellFormed(apply(call.pre, call.t1.args[2]))

\* C18: (is A Expr) yields the unification of A with the numeric atom of the
\* value of Expr under the current substitution when that unification
\* succeeds, and nothing when it fails, as it does when A is bound to a
\* different value; (is X (+ 2 (* 3 4))) binds X to 14.
C18_IsEvaluates ==
    IsCall =>
        LET A == apply(call.pre, call.t1.args[1])
            value == ValueAtom(apply(call.pre, call.t1.args[2]))
            unified == unify(A, value, 1, <<call.pre>>)
        IN  /\ unified.ref = NoneRef <=> call.ref = NoneRef
            /\ call.ref # NoneRef => heap[call.ref] = unified.heap[unified.ref]
            /\ IsVariable(A) =>
                  /\ call.ref # NoneRef
                  /\ heap[call.ref] = [n \in DOMAIN call.pre \cup {A.name} |->
                                          IF n = A.name THEN value ELSE call.pre[n]]
            /\ (IsAtom(A) /\ A = value) => call.ref # NoneRef /\ heap[call.ref] = call.pre
            /\ (~IsVariable(A) /\ A # value) => call.ref = NoneRef
            /\ (call.t1 = is(X, Sum14) /\ IsVariable(A))
                  => apply(heap[call.ref], X) = Num(14)

\* a division was evaluated to a value that is not an integer, and bound
C18_Witness ==
    /\ IsCall
    /\ call.t1.args[2] = Compound("/", <<Compound("*", <<Y, Y>>), Num(2)>>)
    /\ call.ref # NoneRef
    /\ apply(heap[call.ref], X) = NumQ(9, 2)

\* (is X (+ 2 (* 3 4))) was evaluated with X bound to 15 and gave nothing
C18_WitnessBound ==
    /\ IsCall
    /\ call.t1 = is(X, Sum14)
    /\ apply(call.pre, X) = Num(15)
    /\ call.ref = NoneRef

\* the call was (/= A B)
NotUnifiableCall ==
    /\ call.op = "evaluate"
    /\ call.t1.functor = "/=" /\ Len(call.t1.args) = 2

\* C19: (/= A B) yields a solution exactly when unify(A, B) fails under the
\* current substitution, and the solution is the substitution it was called
\* under; (/= tom bob) and (/= (f A) (g B)) succeed and (/= X X) fails.
C19_NotUnifiable ==
    NotUnifiableCall =>
        /\ call.ref # NoneRef
              <=> unify(call.t1.args[1], call.t1.args[2], 1, <<call.pre>>).ref = NoneRef
        /\ call.ref # NoneRef => heap[call.ref] = call.pre
        /\ call.t1 \in {Compound("/=", <<tom, bob>>),
                         Compound("/=", <<f_of(X), Compound("g", <<Y>>)>>)}
              => call.ref # NoneRef
        /\ call.t1 = Compound("/=", <<X, X>>) => call.ref = NoneRef

\* (/= (f X a) (f b X)) succeeded under a substitution that leaves X unbound:
\* the first pair of arguments unifies, the second does not
C19_Witness ==
    /\ NotUnifiableCall
    /\ call.t1 = Compound("/=", <<Compound("f", <<X, a>>), Compound("f", <<b, X>>)>>)
    /\ "X" \notin DOMAIN call.pre
    /\ call.ref # NoneRef


(***************************************************************************)
(* Properties of list unification (checked under SpecL).                   *)
(***************************************************************************)
\* a list with no tail
IsProperList(t) == IsList(t) /\ t.tail = NoTail

\* the empty list with no tail
IsNil(t) == IsProperList(t) /\ t.elements = <<>>

\* what is left of a list past its first k elements: the further elements
\* with the list's tail, or the tail alone, or the empty list
Remainder(t, k) ==
    IF Len(t.elements) > k
    THEN ListTerm([i \in 1..(Len(t.elements) - k) |-> t.elements[i + k]], t.tail)
    ELSE IF t.tail # NoTail THEN t.tail
    ELSE ListTerm(<<>>, NoTail)

\* unify was called on the proper list l = [e1 .. en], n >= 1, and the list
\* p = [H | T] whose H and T are two variables that are unbound and occur
\* nowhere in l
HeadTailCall(l, p) ==
    /\ IsProperList(l) /\ Len(l.elements) >= 1
    /\ IsList(p) /\ Len(p.elements) = 1
    /\ IsVariable(p.elements[1]) /\ p.tail # NoTail /\ IsVariable(p.tail)
    /\ p.elements[1] # p.tail
    /\ {p.elements[1].name, p.tail.name} \cap (DOMAIN call.pre \cup VarsOf(l)) = {}

\* H and e1 are one term under the result, and T is bound to the proper list
\* [e2 .. en]
HeadTailBound(l, p) ==
    /\ call.ref # NoneRef
    /\ apply(heap[call.ref], p.elements[1]) = apply(heap[call.ref], l.elements[1])
    /\ p.tail.name \in DOMAIN heap[call.ref]
    /\ heap[call.ref][p.tail.name] = ListTerm(Tail(l.elements), NoTail)

\* C20: two lists unify by unifying their elements in pairs, left to right,
\* up to the length of the shorter, and then what is left of the one with
\* what is left of the other; [e1 .. en] with [H | T] makes H and e1 one term
\* and binds T to the proper list [e2 .. en]; two proper lists of different
\* lengths do not unify; the empty list with no tail unifies with no list
\* that has an element or a tail.
C20_ListUnification ==
    (call.op = "unify" /\ IsList(call.t1) /\ IsList(call.t2)) =>
        LET l1 == apply(call.pre, call.t1)
            l2 == apply(call.pre, call.t2)
            k == IF Len(l1.elements) < Len(l2.elements) THEN Len(l1.elements)
                 ELSE Len(l2.elements)
            paired == unify_each(l1.elements, l2.elements, 1, k, 1, <<call.pre>>)
            whole == IF paired.ref = NoneRef THEN paired
                     ELSE unify(Remainder(l1, k), Remainder(l2, k),
                                paired.ref, paired.heap)
        IN  /\ (~IsNil(l1) /\ ~IsNil(l2)) =>
                  /\ call.ref = NoneRef <=> whole.ref = NoneRef
                  /\ call.ref # NoneRef => heap[call.ref] = whole.heap[whole.ref]
            /\ HeadTailCall(l1, l2) => HeadTailBound(l1, l2)
            /\ HeadTailCall(l2, l1) => HeadTailBound(l2, l1)
            /\ ( /\ IsProperList(l1) /\ IsProperList(l2)
                 /\ Len(l1.elements) # Len(l2.elements) ) => call.ref = NoneRef
            /\ (IsNil(l1) /\ ~IsNil(l2)) => call.ref = NoneRef
            /\ (IsNil(l2) /\ ~IsNil(l1)) => call.ref = NoneRef

\* [1 2 3] was unified with [X | T]: X is 1 and T is [2 3]
C20_Witness ==
    /\ call.op = "unify"
    /\ call.t1 = ListTerm(<<Num(1), Num(2), Num(3)>>, NoTail)
    /\ call.t2 = ListTerm(<<X>>, T)
    /\ call.ref # NoneRef
    /\ apply(heap[call.ref], X) = Num(1)
    /\ apply(heap[call.ref], T) = ListTerm(<<Num(2), Num(3)>>, NoTail)

\* two proper lists of different lengths whose paired elements unify were
\* given to unify, which failed
C20_WitnessLengths ==
    /\ call.op = "unify"
    /\ call.t1 = ListTerm(<<a>>, NoTail)
    /\ call.t2 = ListTerm(<<X, Y>>, NoTail)
    /\ "X" \notin DOMAIN call.pre
    /\ call.ref = NoneRef


(***************************************************************************)
(* Properties of the depth bound (checked under Spec).                     *)
(***************************************************************************)
\* C21: an activation of solve whose depth is above depth_limit returns and
\* emits nothing, also when it has no goals left; one whose depth is equal to
\* depth_limit goes on (it emits when it has no goals, and resolves its first
\* goal otherwise); every activation is one deeper than its caller, which
\* has resolved one goal by a clause or by a built-in, and the outermost has
\* depth 0.
C21_DepthCheckFirst ==
    /\ [](\A k \in 1..Len(stack) :
              /\ stack[k].depth = k - 1
              /\ k < Len(stack) => stack[k].pc \in {"builtin", "clauses"}
              /\ stack[k].pc = "yielded" => stack[k].depth <= depth_limit)
    /\ [][(Running /\ Top.pc = "start") =>
              IF Top.depth > depth_limit
              THEN out' = out /\ stack' = Below
              ELSE IF Top.goals = <<>>
              THEN /\ Len(out') = Len(out) + 1
                   /\ stack'[Len(stack)].pc = "yielded"
              ELSE /\ out' = out
                   /\ stack'[Len(stack)].pc \in {"builtin", "clauses"}]_vars

\* an activation at depth_limit with no goals left has emitted its solution
C21_Witness ==
    /\ Len(stack) > 0
    /\ Top.pc = "yielded"
    /\ Top.depth = depth_limit

\* an activation above depth_limit has no goals left
C21_WitnessCut ==
    /\ Running /\ Top.pc = "start"
    /\ Top.goals = <<>>
    /\ Top.depth > depth_limit


(***************************************************************************)
(* Properties of clause renaming (checked under Spec).                     *)
(***************************************************************************)
\* the clause c with every variable n replaced by the variable named m[n]
Renamed(c, m) ==
    LET g == [n \in DOMAIN m |-> Variable(m[n])]
    IN  Clause(Inst(c.head, g), [j \in 1..Len(c.body) |-> Inst(c.body[j], g)])

\* C22: the clause a rename call returns is the clause it was given with
\* each variable name replaced, at every occurrence in head and body, by one
\* new name, different names by different new names, and nothing else
\* changed (atoms, functors, arities, list lengths and tails); the new name
\* is the old one with the suffix of the counter, which every turn of the
\* clause loop steps by one before use, whether or not the clause unifies.
C22_RenameConsistent ==
    /\ [](\E m \in [ClauseVars(renamed.clause) -> ClauseVars(renamed.new)] :
              /\ \A n1, n2 \in DOMAIN m : m[n1] = m[n2] => n1 = n2
              /\ renamed.new = Renamed(renamed.clause, m))
    /\ [][(Running /\ Top.pc = "clauses" /\ Top.i < Len(Top.cls)) =>
              /\ var_counter' = var_counter + 1
              /\ renamed'.clause = Top.cls[Top.i + 1]
              /\ renamed'.new =
                    Renamed(renamed'.clause,
                            [n \in ClauseVars(renamed'.clause) |->
                                n \o "_" \o ToString(var_counter')])]_vars

\* the grandparent rule, whose variables occur in head and body, has been
\* renamed by the second rename call of the engine
C22_Witness ==
    /\ renamed.clause = Clause(grandparent(X, Z), <<parent(X, Y), parent(Y, Z)>>)
    /\ renamed.new = Clause(grandparent(Variable("X_2"), Variable("Z_2")),
                            <<parent(Variable("X_2"), Variable("Y_2")),
                              parent(Variable("Y_2"), Variable("Z_2"))>>)
    /\ var_counter = 2

\* a fact with a list that has a tail was renamed by the call after one whose
\* clause unified, and did not unify itself
C22_WitnessList ==
    /\ renamed.new =
          Clause(Compound("r", <<ListTerm(<<Variable("X_2"), a>>, Variable("T_2")),
                                 ListTerm(<<Variable("X_2")>>, NoTail)>>), <<>>)
    /\ ~renamed.unified


(***************************************************************************)
(* Properties of clause entry (checked under SpecR).                       *)
(***************************************************************************)
\* a form was parsed and its clause added
Entered == dbcall.op = "clause" /\ dbcall.result

\* the clause added by the last entry
Stored == clauses[Len(clauses)]

\* the form as a rule: the first argument is the head, the rest is the body
AsRule(term) == Clause(term.args[1], Tail(term.args))

\* the form as a fact
AsFact(term) == Clause(term, <<>>)

\* C23 as stated: a form whose first argument is a Compound is stored as a
\* rule, every other form as a fact with an empty body.
C23_RuleByFirstArgument ==
    Entered =>
        /\ Len(clauses) = Len(dbcall.clauses) + 1
        /\ Stored = IF IsCompound(dbcall.arg) /\ Len(dbcall.arg.args) > 0
                         /\ IsCompound(dbcall.arg.args[1])
                    THEN AsRule(dbcall.arg)
                    ELSE AsFact(dbcall.arg)

\* C23 amended: a form that has no functor of its own, which is what the
\* parser makes of a parenthesised sequence that begins with a parenthesised
\* term, is stored as a rule whose head is the first argument and whose body
\* is the remaining arguments; every other form, also one with a functor and
\* a Compound as first argument, is stored as a fact with an empty body.  A
\* text that does not parse stores nothing.
C23_RuleOrFact ==
    /\ Entered =>
        /\ Len(clauses) = Len(dbcall.clauses) + 1
        /\ \A i \in 1..Len(dbcall.clauses) : clauses[i] = dbcall.clauses[i]
        /\ IF IsCompound(dbcall.arg) /\ dbcall.arg.functor = ""
           THEN /\ Len(dbcall.arg.args) > 0
                /\ IsCompound(dbcall.arg.args[1])
                /\ Stored = AsRule(dbcall.arg)
           ELSE Stored = AsFact(dbcall.arg)
    /\ (dbcall.op = "clause" /\ ~dbcall.result) =>
        /\ clauses = dbcall.clauses
        /\ index = dbcall.index

\* the grandparent rule was entered after (likes (f a) b)
C23_Witness ==
    /\ Entered
    /\ Len(clauses) = 2
    /\ clauses[1] = Clause(Compound("likes", <<Compound("f", <<a>>), b>>), <<>>)
    /\ clauses[2] = Clause(grandparent(X, Z), <<parent(X, Y), parent(Y, Z)>>)

(***************************************************************************)
(* C24: type tests.                                                        *)
(***************************************************************************)
TypeTests == {"atom", "number", "var", "nonvar"}

\* the terms the type tests are asked about
TestedTerms ==
    {X, Y, T, a, Num(3), Num(14), f_of(X), f_of(a),
     ListTerm(<<>>, NoTail), ListTerm(<<X>>, T)}

\* the result of the type test (functor A) under the current substitution
TypeTest(functor, A) == evaluate(Compound(functor, <<A>>), 1, <<heap[cur]>>)

\* the type test (functor A) succeeds under the current substitution
Succeeds(functor, A) == TypeTest(functor, A).ref # NoneRef

\* the last call was a type test on one argument
TypeTestCall ==
    /\ call.op = "evaluate"
    /\ call.t1.functor \in TypeTests
    /\ Len(call.t1.args) = 1

\* C24: under every substitution the built-in runs reach and for every
\* term A, exactly one of (var A) and (nonvar A) succeeds, (atom A) succeeds
\* exactly when the substitution applied to A is an atom with a string value
\* and (number A) exactly when it is an atom with a numeric value, at most
\* one of var, atom and number succeeds, and a type test that succeeds
\* yields the substitution it was given, unchanged.
C24_TypeTests ==
    /\ \A A \in TestedTerms :
          LET term == apply(heap[cur], A)
          IN  /\ Succeeds("var", A) # Succeeds("nonvar", A)
              /\ Succeeds("atom", A) <=> (IsAtom(term) /\ ~term.isnum)
              /\ Succeeds("number", A) <=> (IsAtom(term) /\ term.isnum)
              /\ Cardinality({f \in {"var", "atom", "number"} : Succeeds(f, A)}) <= 1
              /\ \A f \in TypeTests :
                    Succeeds(f, A) =>
                        TypeTest(f, A) = [ref |-> 1, heap |-> <<heap[cur]>>]
    /\ (TypeTestCall /\ call.ref # NoneRef) =>
          /\ call.ref = 1
          /\ heap = <<call.pre>>
          /\ cur = 1

\* (atom X) has succeeded under a substitution that binds X
C24_Witness ==
    /\ TypeTestCall
    /\ call.t1 = Compound("atom", <<X>>)
    /\ call.ref # NoneRef
    /\ "X" \in DOMAIN call.pre

\* (number X) has failed where X is bound to a term that is not a number,
\* and (var X) has failed where X is bound
C24_WitnessFails ==
    /\ TypeTestCall
    /\ call.t1 \in {Compound("number", <<X>>), Compound("var", <<X>>)}
    /\ call.ref = NoneRef
    /\ "X" \in DOMAIN call.pre

(***************************************************************************)
(* C25: bindings only grow.                                                *)
(***************************************************************************)
\* the bindings b2 hold every binding of b1, with the same value
Extends(b2, b1) ==
    /\ DOMAIN b1 \subseteq DOMAIN b2
    /\ \A n \in DOMAIN b1 : b2[n] = b1[n]

\* the activations of solve that hold a substitution object
Holding == {k \in 1..Len(stack) : stack[k].subst # NoneRef}

\* C25: a successful unify returns a substitution that holds every binding
\* of the one it was given, with the same value, and what it adds are
\* bindings of names that were unbound; hence the substitution of every
\* activation of solve, and so every substitution emitted, holds unchanged
\* all bindings of the substitution of every activation that encloses it.
C25_BindingsGrow ==
    /\ (call.op = "unify" /\ call.ref # NoneRef) =>
          Extends(heap[call.ref], call.pre)
    /\ \A k \in Holding : \A j \in Holding :
          j < k => Extends(heap[stack[k].subst], heap[stack[j].subst])
    /\ (mode = "yielded" /\ Len(out) > 0) =>
          \A k \in Holding : Extends(heap[out[Len(out)].ref], heap[stack[k].subst])

\* a substitution has been emitted that adds bindings to the bindings an
\* enclosing activation of solve was given, which were not empty
C25_Witness ==
    /\ mode = "yielded"
    /\ Len(out) > 0
    /\ \E k \in Holding :
          /\ DOMAIN heap[stack[k].subst] # {}
          /\ DOMAIN heap[stack[k].subst] # DOMAIN heap[out[Len(out)].ref]

(***************************************************************************)
(* C26: backtracking isolation.                                            *)
(***************************************************************************)
\* the activations of solve that stand in their clause loop with a clause
\* under trial
Trying == {k \in 1..Len(stack) : stack[k].pc = "clauses" /\ stack[k].i > 0}

\* the variable names of the derivation that is being followed: those of the
\* query and those of the clause each activation has under trial, as renamed
OnPath ==
    VarsOfAll(goals) \cup
    UNION {ClauseVars(rename_variables(stack[k].cls[stack[k].i], stack[k].counter)) :
               k \in Trying}

\* the names bound in bs and the names in the terms they are bound to
Mentioned(bs) == DOMAIN bs \cup UNION {VarsOf(bs[n]) : n \in DOMAIN bs}

\* an activation tries a second or later clause after an earlier clause of
\* the same loop unified with the goal and left bindings in a substitution
\* object of its own
LaterAlternative(k) ==
    /\ k \in Trying
    /\ stack[k].i > 1
    /\ \E r \in 1..Len(heap) : ~(Mentioned(heap[r]) \subseteq OnPath)

\* C26: as long as an activation of solve stands in its clause loop, the
\* substitution object it unifies every clause head with and the bindings
\* of that object stay the ones that held when the goal was selected; and
\* every binding of the substitution an activation holds, so of every
\* solution emitted, is of a name of the query or of a clause on the
\* derivation being followed, to a term over such names: no binding made
\* for an alternative that was given up is in it.
C26_BacktrackingIsolation ==
    /\ [](\A k \in Holding : Mentioned(heap[stack[k].subst]) \subseteq OnPath)
    /\ [][\A k \in 1..Len(stack) :
             (stack[k].pc = "clauses" /\ k <= Len(stack') /\ stack'[k].pc = "clauses") =>
                 /\ stack'[k].subst = stack[k].subst
                 /\ stack'[k].goal = stack[k].goal
                 /\ heap'[stack'[k].subst] = heap[stack[k].subst]]_vars

\* a solution has been emitted through a later clause of a loop in which an
\* earlier clause had unified and made bindings
C26_Witness ==
    /\ mode = "yielded"
    /\ Len(out) > 0
    /\ \E k \in 1..Len(stack) : LaterAlternative(k)

(***************************************************************************)
(* C27: unification is symmetric.                                          *)
(***************************************************************************)
\* unify(t1, t2, sigma) for the substitution sigma the unification run holds
UnifyUnder(t1, t2) == unify(t1, t2, 1, <<heap[cur]>>)

\* unify(t1, t2, sigma) fails exactly when unify(t2, t1, sigma) fails
FailsBothWays(t1, t2) ==
    UnifyUnder(t1, t2).ref = NoneRef <=> UnifyUnder(t2, t1).ref = NoneRef

\* the substitution a successful call has returned makes t1 and t2
\* structurally equal
MakesEqual(res, t1, t2) ==
    apply(res.heap[res.ref], t1) = apply(res.heap[res.ref], t2)

\* C27: for all terms t1 and t2 and every substitution sigma made by unify
\* calls, unify(t1, t2, sigma) fails exactly when unify(t2, t1, sigma) fails,
\* and when both succeed each of the two results, applied to t1 and to t2,
\* gives structurally equal terms.
C27_Symmetric ==
    \A t1 \in UnifyTerms : \A t2 \in UnifyTerms :
        /\ FailsBothWays(t1, t2)
        /\ UnifyUnder(t1, t2).ref # NoneRef =>
              /\ MakesEqual(UnifyUnder(t1, t2), t1, t2)
              /\ MakesEqual(UnifyUnder(t2, t1), t1, t2)

(***************************************************************************)
(* C28: unification is stable.                                             *)
(***************************************************************************)
\* the last call was a unify call that returned a substitution
Unified == call.op = "unify" /\ call.ref # NoneRef

\* the two terms of the last call unified again, under the substitution the
\* call returned
Again == unify(call.t1, call.t2, call.ref, heap)

\* C28: when unify(t1, t2, sigma) has returned a substitution, unify of the
\* same two terms under that substitution succeeds and returns a substitution
\* with exactly the bindings of the one it was given, lists with tails
\* included.
C28_Stable ==
    Unified =>
        /\ Again.ref # NoneRef
        /\ Again.heap[Again.ref] = heap[call.ref]

\* a list with a tail has been unified with another list and the call has
\* bound the tail variable to a list
C28_Witness ==
    /\ Unified
    /\ IsList(call.t1) /\ IsList(call.t2)
    /\ Truthy(call.t1.tail) \/ Truthy(call.t2.tail)
    /\ "T" \in DOMAIN heap[call.ref] \ DOMAIN call.pre
    /\ IsList(heap[call.ref]["T"])

(***************************************************************************)
(* C29: built-ins shadow user clauses.                                     *)
(***************************************************************************)
\* a goal whose functor is one of the twelve reserved names
Reserved(t) == IsCompound(t) /\ t.functor \in Builtins

\* the activations whose clause under trial unified with the goal: solve was
\* called on its body and the remaining goals
Resolved == {k \in Trying : k < Len(stack)}

\* for a goal with a reserved functor solve never consults the database: no
\* activation stands in a clause loop with such a goal, and an activation
\* that selects such a goal goes to the built-in
NeverConsulted ==
    /\ [](\A k \in 1..Len(stack) :
             /\ stack[k].pc = "clauses" => ~Reserved(stack[k].goal)
             /\ stack[k].pc = "builtin" => Reserved(stack[k].goal))
    /\ [][(Running /\ Top.pc = "start" /\ Top.goals # <<>>
              /\ ~returns_at_once(Top.depth, depth_limit, Top.goals)
              /\ Reserved(apply(OwnSubst(Top).heap[OwnSubst(Top).ref], Top.goals[1])))
             => (mode' = "raised" \/ stack'[Len(stack)].pc = "builtin")]_vars

\* C29 as stated: for a goal with a reserved functor solve never consults
\* the database, at any arity, and no clause whose head has a reserved
\* functor is on the derivation of a solution.
C29_NoSolutionThroughReserved ==
    /\ NeverConsulted
    /\ [](\A k \in Resolved : ~Reserved(stack[k].cls[stack[k].i].head))

\* C29 amended: for a goal with a reserved functor solve never consults the
\* database, at any arity, and a clause whose head has a reserved functor is
\* resolved only with a goal that is an unbound variable when it is selected.
C29_Shadowed ==
    /\ NeverConsulted
    /\ [](\A k \in Resolved :
             Reserved(stack[k].cls[stack[k].i].head) => IsVariable(stack[k].goal))

\* the goal (= a b) has been run as a built-in and has failed, in a database
\* that holds the fact (= a b), and the query has ended without a solution
C29_Witness ==
    /\ mode = "exhausted"
    /\ goals = <<Compound("=", <<a, b>>)>>
    /\ \E c \in 1..Len(clauses) : clauses[c] = Clause(goals[1], <<>>)
    /\ out = <<>>
    /\ work = 1

\* a solution has been emitted through a clause named after a built-in, for
\* a goal that was an unbound variable
C29_WitnessVariableGoal ==
    /\ mode = "yielded"
    /\ \E k \in Resolved : Reserved(stack[k].cls[stack[k].i].head)

(***************************************************************************)
(* C30: = and /= are complementary.                                        *)
(***************************************************************************)
\* the terms the goals (= A B) and (/= A B) are made of
ComparedTerms ==
    TestedTerms \cup {b, f_of(Y), ListTerm(<<X, a>>, NoTail), ListTerm(<<b>>, T)}

\* whether the goal (functor A B) yields a solution under the bindings bs
Yields(functor, A, B, bs) ==
    evaluate(Compound(functor, <<A, B>>), 1, <<bs>>).ref \notin {NoneRef, Raised}

\* the last call was the goal (= A B) or (/= A B)
EqualityCall ==
    /\ call.op = "evaluate"
    /\ call.t1.functor \in {"=", "/="}
    /\ Len(call.t1.args) = 2

\* C30: for all terms A and B and every substitution the built-in runs
\* reach, exactly one of the goals (= A B) and (/= A B) yields a solution,
\* and each yields at most one (a handler's result is one substitution or
\* none); a goal of the two that was called yielded exactly when the other
\* would not have.
C30_Complementary ==
    /\ \A A \in ComparedTerms : \A B \in ComparedTerms :
          Yields("=", A, B, heap[cur]) # Yields("/=", A, B, heap[cur])
    /\ EqualityCall =>
          LET other == IF call.t1.functor = "=" THEN "/=" ELSE "="
          IN  (call.ref # NoneRef) #
                  Yields(other, call.t1.args[1], call.t1.args[2], call.pre)

\* (/= X a) has yielded under a substitution that binds X, and (= X a) has
\* no solution under it
C30_Witness ==
    /\ EqualityCall
    /\ call.t1 = Compound("/=", <<X, a>>)
    /\ call.ref # NoneRef
    /\ "X" \in DOMAIN call.pre
    /\ ~Yields("=", X, a, call.pre)

\* (= X Y) has yielded and bound a variable where (/= X Y) had no solution
C30_WitnessUnified ==
    /\ EqualityCall
    /\ call.t1 = Compound("=", <<X, Y>>)
    /\ call.ref # NoneRef
    /\ heap[call.ref] # call.pre
    /\ ~Yields("/=", X, Y, call.pre)

====
